---- MODULE Spec2Model ----
(***************************************************************************)
(* Gesture-rate governor of eBrowser's InputHandlerProxy                   *)
(* (ui/events/blink/input_handler_proxy.cc).                               *)
(*                                                                         *)
(* The state is the file-scope governor state (msg_model, scrollSpeed,     *)
(* start points, accumulated deltas) together with the gesture flags of    *)
(* one InputHandlerProxy.  Every action is one call of                     *)
(* HandleInputEventWithLatencyInfo for one event type, or one call of      *)
(* HandleInputModelMsg.  The collaborator (cc::InputHandler) answers are   *)
(* inputs of the actions; the calls made to it and the sleeps performed    *)
(* during the event are recorded, in order, in last.calls.                 *)
(*                                                                         *)
(* Doubles that hold rates are modelled exactly as rationals num/den; the  *)
(* conversion of a double to the int64 microsecond count of                *)
(* base::TimeDelta::FromMicroseconds truncates toward zero.                *)
(***************************************************************************)
EXTENDS Integers, Sequences, FiniteSets, TLC

\* ------------------------------------------------------------------------
\* Bounds of the model
\* ------------------------------------------------------------------------
\* largest absolute value the never-reset accumulators may reach
MaxAccum == 2

\* ------------------------------------------------------------------------
\* Program constants
\* ------------------------------------------------------------------------
kDefaultSpeed == 200
kNoModelRate == 60
kMinFps == 10
kMaxFps == 60
kSpeedDivisor == 50
kMicrosPerSecond == 1000000
kFrameMicros == 16667
kStepMicros == 1667
kEventDispositionUndefined == -1

\* ------------------------------------------------------------------------
\* Input domains
\* ------------------------------------------------------------------------
\* serialized model blobs that HandleInputModelMsg may receive
ValidModels == {"svrA", "svrB"}
Models == {"", "stop", "garbage"} \cup ValidModels
\* blobs and speeds that drive the predictor through every rate
SweepModels == {"svrI", "svrH"}
SweepSpeeds == {50 * k : k \in -8 .. 70}
\* speed arguments of HandleInputModelMsg (0 stands for "unset")
Speeds == {0, 200, 3000, -1000}
RoutingIds == {1}
\* positions of GestureScrollBegin events, the first a sentinel
BeginPoints == {<<-1, -1>>, <<7, 5>>}
\* positions and deltas of update events
UpdatePoints == {<<7, 3>>}
\* positions and scales (in percent) of GesturePinchUpdate events
PinchPoints == {<<7, 3>>, <<2, 9>>}
PinchScales == {90, 125}
Deltas == {<<0, 0>>}
SweepDeltas == {<<0, 0>>, <<1, 0>>}
\* positions and deltas of the gesture streams: both sentinels, positions
\* with one sentinel coordinate, an ordinary one
StreamBeginPoints == {<<-1, -1>>, <<0, 0>>, <<0, 5>>, <<7, -1>>, <<7, 5>>}
StreamDeltas == {<<1, 0>>, <<0, 1>>}
ScrollUnits == {"PrecisePixels", "Pixels", "Page"}
UpdateUnits == {"PrecisePixels", "Pixels"}
Devices == {"Touchpad", "Touchscreen"}
\* velocities of GestureFlingStart events, below and above the boost
\* threshold of 350 pixels per second
FlingVelocities == {<<0, 100>>, <<0, 2000>>}
ScrollThreads == {"SCROLL_ON_MAIN_THREAD", "SCROLL_ON_IMPL_THREAD",
                  "SCROLL_IGNORED", "SCROLL_UNKNOWN"}
ListenerProperties == {"kNone", "kPassive", "kBlocking", "kBlockingAndPassive"}
\* what GestureScrollBegin events carry and the collaborator answers; a
\* page-based begin never asks the collaborator
BeginCases ==
    {c \in [units : ScrollUnits, targetViewport : BOOLEAN,
            answer : ScrollThreads] :
        c.units = "Page" =>
            (~c.targetViewport /\ c.answer = "SCROLL_ON_MAIN_THREAD")}
\* the collaborator's answer to ScrollBy and to ScrollAnimated
ScrollByReplies ==
    [did_scroll : BOOLEAN, did_overscroll_root : BOOLEAN,
     thread : {"SCROLL_UNKNOWN"}]
ScrollAnimatedReplies ==
    [did_scroll : {FALSE}, did_overscroll_root : {FALSE},
     thread : ScrollThreads]
\* GesturePinchBegin: the device and the wheel listeners; only a touchpad
\* pinch asks for the listeners
PinchBeginCases ==
    {c \in [device : Devices, wheel_listeners : ListenerProperties] :
        c.device = "Touchscreen" => c.wheel_listeners = "kNone"}
Dispositions == {"DID_HANDLE", "DID_HANDLE_NON_BLOCKING", "DID_NOT_HANDLE",
                 "DROP_EVENT"}

\* ------------------------------------------------------------------------
\* Arithmetic helpers
\* ------------------------------------------------------------------------
Abs(n) == IF n < 0 THEN -n ELSE n

\* C++ integer division: the quotient is truncated toward zero
TruncDiv(a, b) == IF a >= 0 THEN a \div b ELSE -((-a) \div b)

\* ceil() of the rational num/den, den > 0
Ceil(num, den) == -((-num) \div den)

\* conversion of the double num/den (den > 0) to int64 microseconds
Micros(num, den) == TruncDiv(num, den)

\* a call made during an event: a sleep or a collaborator call
\* a call with three arguments; c is the scale of PinchGestureUpdate
Call3(op, a, b, c) == [op |-> op, a |-> a, b |-> b, c |-> c]
Call(op, a, b) == Call3(op, a, b, 0)
Sleep(us) == Call("Sleep", us, 0)
CallsOf(calls, op) == SelectSeq(calls, LAMBDA c : c.op = op)

\* ------------------------------------------------------------------------
\* The regression library behind predict (svm.h): a serialized blob is
\* either rejected by svm_load_model or parsed into rho and the support
\* vectors; values are in units of 1/PredDen.
\* ------------------------------------------------------------------------
PredDen == 10
NullModel == [ok |-> FALSE, rho |-> 0, SV |-> << >>]

svm_load_model(text) ==
    CASE text = "svrA" -> [ok |-> TRUE, rho |-> -200,
                           SV |-> << [coef |-> 25, value |-> 1] >>]
      [] text = "svrB" -> [ok |-> TRUE, rho |-> -449,
                           SV |-> << [coef |-> 3, value |-> 1],
                                     [coef |-> -1, value |-> 2] >>]
      [] text = "svrI" -> [ok |-> TRUE, rho |-> 0,
                           SV |-> << [coef |-> 10, value |-> 1] >>]
      [] text = "svrH" -> [ok |-> TRUE, rho |-> 4,
                           SV |-> << [coef |-> 5, value |-> 2] >>]
      [] OTHER -> NullModel

RECURSIVE KernelSum(_, _, _)
KernelSum(SV, i, x) ==
    IF i > Len(SV) THEN 0
    ELSE SV[i].coef * (SV[i].value * x) + KernelSum(SV, i + 1, x)

\* the decision value for the single feature {index = 1, value = x}
svm_predict(model, x) == KernelSum(model.SV, 1, x) - model.rho

\* ------------------------------------------------------------------------
\* predict(speed): the rate as the rational num/den, whether the process
\* exits, and the library calls made
\* ------------------------------------------------------------------------
\* mutant: the "stop" sentinel is not recognised
predict_NoStopSentinel(model_text, speed) ==
    IF model_text = ""
    THEN [exit |-> FALSE, num |-> kNoModelRate, den |-> 1, calls |-> << >>]
    ELSE LET model == svm_load_model(model_text)
         IN IF ~model.ok
            THEN [exit |-> TRUE, num |-> 0, den |-> 1,
                  calls |-> << Call("svm_load_model", 0, 0),
                               Call("exit", 1, 0) >>]
            ELSE [exit |-> FALSE, num |-> svm_predict(model, speed),
                  den |-> PredDen,
                  calls |-> << Call("svm_load_model", 0, 0),
                               Call("svm_predict", speed, 0) >>]

\* mutant: a model that does not load is treated like no model
predict_IgnoreLoadFailure(model_text, speed) ==
    IF model_text = "" \/ model_text = "stop"
    THEN [exit |-> FALSE, num |-> kNoModelRate, den |-> 1, calls |-> << >>]
    ELSE LET model == svm_load_model(model_text)
         IN IF ~model.ok
            THEN [exit |-> FALSE, num |-> kNoModelRate, den |-> 1,
                  calls |-> << Call("svm_load_model", 0, 0) >>]
            ELSE [exit |-> FALSE, num |-> svm_predict(model, speed),
                  den |-> PredDen,
                  calls |-> << Call("svm_load_model", 0, 0),
                               Call("svm_predict", speed, 0) >>]

predict(model_text, speed) ==
    IF model_text = "" \/ model_text = "stop"
    THEN [exit |-> FALSE, num |-> kNoModelRate, den |-> 1, calls |-> << >>]
    ELSE LET model == svm_load_model(model_text)
         IN IF ~model.ok
            THEN [exit |-> TRUE, num |-> 0, den |-> 1,
                  calls |-> << Call("svm_load_model", 0, 0),
                               Call("exit", 1, 0) >>]
            ELSE [exit |-> FALSE, num |-> svm_predict(model, speed),
                  den |-> PredDen,
                  calls |-> << Call("svm_load_model", 0, 0),
                               Call("svm_predict", speed, 0) >>]

\* mutant: the lower clamp is missing
ClampFps_NoLower(num, den) ==
    LET c == Ceil(num, den)
    IN IF c > kMaxFps THEN kMaxFps ELSE c

\* mutant: the lower clamp is at 1 instead of 10
ClampFps_LowerAtOne(num, den) ==
    LET c == Ceil(num, den)
    IN IF c < 1 THEN 1 ELSE IF c > kMaxFps THEN kMaxFps ELSE c

\* fps = ceil(fps); if(fps<10){fps = 10;} if(fps>60){fps = 60;}
ClampFps(num, den) ==
    LET c == Ceil(num, den)
    IN IF c < kMinFps THEN kMinFps ELSE IF c > kMaxFps THEN kMaxFps ELSE c

\* ------------------------------------------------------------------------
\* The delay bands of HandleGestureScrollUpdate
\* ------------------------------------------------------------------------
\* the first, separate if
ScrollLowBand(fps) == fps >= 1 /\ fps <= 9

\* mutant: the boundary at 15 is on the wrong side
ScrollBand_Boundary15(fps) ==
    IF fps >= 10 /\ fps < 15 THEN "b10_15"
    ELSE IF fps >= 15 /\ fps < 20 THEN "b15_20"
    ELSE IF fps >= 20 /\ fps <= 30 THEN "b20_30"
    ELSE IF fps > 30 /\ fps <= 41 THEN "b30_41"
    ELSE IF fps > 41 /\ fps <= 44 THEN "b41_44"
    ELSE IF fps = 45 THEN "b45"
    ELSE IF fps > 45 /\ fps <= 52 THEN "b45_52"
    ELSE IF fps = 55 THEN "b55"
    ELSE IF fps = 60 THEN "b60"
    ELSE "other"

\* the branch of the if / else-if chain that is taken
ScrollBand(fps) ==
    IF fps >= 10 /\ fps <= 15 THEN "b10_15"
    ELSE IF fps > 15 /\ fps < 20 THEN "b15_20"
    ELSE IF fps >= 20 /\ fps <= 30 THEN "b20_30"
    ELSE IF fps > 30 /\ fps <= 41 THEN "b30_41"
    ELSE IF fps > 41 /\ fps <= 44 THEN "b41_44"
    ELSE IF fps = 45 THEN "b45"
    ELSE IF fps > 45 /\ fps <= 52 THEN "b45_52"
    ELSE IF fps = 55 THEN "b55"
    ELSE IF fps = 60 THEN "b60"
    ELSE "other"

\* mutant: the slope of the 30..41 band has the wrong sign
ScrollBandDelay_RisingSlope(band, fps) ==
    CASE band = "b1_9" ->
           Micros(kMicrosPerSecond - kFrameMicros * fps, fps)
      [] band = "b10_15" ->
           Micros(4 * kMicrosPerSecond
                  + fps * ((fps - 10) * kStepMicros * 3 - 4 * kFrameMicros),
                  4 * fps)
      [] band = "b15_20" ->
           Micros(5 * kMicrosPerSecond
                  + fps * ((fps - 10) * kStepMicros * 3 - 5 * kFrameMicros),
                  5 * fps)
      [] band = "b20_30" -> 24997 + kStepMicros * (30 - fps)
      [] band = "b30_41" -> Micros(2 * 16663 + kStepMicros * (fps - 41), 2)
      [] band = "b41_44" -> Micros(2 * 16246 + kStepMicros * (44 - fps), 2)
      [] band = "b45" -> 15412
      [] band = "b45_52" -> Micros(2 * 11245 + kStepMicros * (52 - fps), 2)
      [] band = "b55" -> 12912
      [] band = "other" -> Micros(2 * 12912 + kStepMicros * (55 - fps), 2)

\* the argument of FromMicroseconds in each branch
ScrollBandDelay(band, fps) ==
    CASE band = "b1_9" ->
           Micros(kMicrosPerSecond - kFrameMicros * fps, fps)
      [] band = "b10_15" ->
           Micros(4 * kMicrosPerSecond
                  + fps * ((fps - 10) * kStepMicros * 3 - 4 * kFrameMicros),
                  4 * fps)
      [] band = "b15_20" ->
           Micros(5 * kMicrosPerSecond
                  + fps * ((fps - 10) * kStepMicros * 3 - 5 * kFrameMicros),
                  5 * fps)
      [] band = "b20_30" -> 24997 + kStepMicros * (30 - fps)
      [] band = "b30_41" -> Micros(2 * 16663 + kStepMicros * (41 - fps), 2)
      [] band = "b41_44" -> Micros(2 * 16246 + kStepMicros * (44 - fps), 2)
      [] band = "b45" -> 15412
      [] band = "b45_52" -> Micros(2 * 11245 + kStepMicros * (52 - fps), 2)
      [] band = "b55" -> 12912
      [] band = "other" -> Micros(2 * 12912 + kStepMicros * (55 - fps), 2)

\* mutant: the fps == 60 branch sleeps for 0 like the pinch path
ScrollSleeps_SleepAt60(fps) ==
    (IF ScrollLowBand(fps) THEN << Sleep(ScrollBandDelay("b1_9", fps)) >>
     ELSE << >>)
    \o (IF ScrollBand(fps) = "b60" THEN << Sleep(0) >>
        ELSE << Sleep(ScrollBandDelay(ScrollBand(fps), fps)) >>)

\* mutant: the governor's sleeps are disabled
ScrollSleeps_Disabled(fps) == << >>

\* the sleeps of one GestureScrollUpdate, in order; the fps == 60 branch
\* only logs
ScrollSleeps(fps) ==
    (IF ScrollLowBand(fps) THEN << Sleep(ScrollBandDelay("b1_9", fps)) >>
     ELSE << >>)
    \o (IF ScrollBand(fps) = "b60" THEN << >>
        ELSE << Sleep(ScrollBandDelay(ScrollBand(fps), fps)) >>)

\* the branches entered by one GestureScrollUpdate
ScrollBands(fps) ==
    (IF ScrollLowBand(fps) THEN {"b1_9"} ELSE {}) \cup {ScrollBand(fps)}

\* ------------------------------------------------------------------------
\* The delay bands of the GesturePinchUpdate case
\* ------------------------------------------------------------------------
\* double fps = 0.0213*scrollSpeed+15.6, as the rational num/10000
PinchFpsNum(speed) == 213 * speed + 156000
PinchFpsDen == 10000

PinchLowBand(fps) == fps >= 1 /\ fps <= 9

PinchBand(fps) ==
    IF fps >= 10 /\ fps <= 15 THEN "b10_15"
    ELSE IF fps > 15 /\ fps < 20 THEN "b15_20"
    ELSE IF fps >= 20 /\ fps <= 30 THEN "b20_30"
    ELSE IF fps > 30 /\ fps <= 41 THEN "b30_41"
    ELSE IF fps > 41 /\ fps <= 44 THEN "b41_44"
    ELSE IF fps = 45 THEN "b45"
    ELSE IF fps > 45 /\ fps <= 52 THEN "b45_52"
    ELSE IF fps = 55 THEN "b55"
    ELSE IF fps = 60 THEN "b60"
    ELSE "other"

PinchBandDelay(band, fps) ==
    CASE band = "b1_9" ->
           Micros(kMicrosPerSecond - kFrameMicros * fps, fps)
      [] band = "b10_15" ->
           Micros(4 * kMicrosPerSecond
                  + fps * ((fps - 10) * kStepMicros * 3 - 4 * kFrameMicros),
                  4 * fps)
      [] band = "b15_20" ->
           Micros(5 * kMicrosPerSecond
                  + fps * ((fps - 10) * kStepMicros * 3 - 5 * kFrameMicros),
                  5 * fps)
      [] band = "b20_30" -> 24997 + kStepMicros * (30 - fps)
      [] band = "b30_41" -> Micros(2 * 16663 + kStepMicros * (41 - fps), 2)
      [] band = "b41_44" -> Micros(2 * 16246 + kStepMicros * (44 - fps), 2)
      [] band = "b45" -> 15412
      [] band = "b45_52" -> Micros(2 * 11245 + kStepMicros * (52 - fps), 2)
      [] band = "b55" -> 12912
      [] band = "b60" -> 0
      [] band = "other" -> Micros(2 * 12912 + kStepMicros * (55 - fps), 2)

\* the sleeps of one GesturePinchUpdate; the fps == 60 branch sleeps for 0
PinchSleeps(fps) ==
    (IF PinchLowBand(fps) THEN << Sleep(PinchBandDelay("b1_9", fps)) >>
     ELSE << >>)
    \o << Sleep(PinchBandDelay(PinchBand(fps), fps)) >>

PinchBands(fps) ==
    (IF PinchLowBand(fps) THEN {"b1_9"} ELSE {}) \cup {PinchBand(fps)}

\* ------------------------------------------------------------------------
\* State
\* ------------------------------------------------------------------------
VARIABLES
    \* file-scope governor state
    msg_model, routing_id_, scrollSpeed,
    start_point_x, start_point_y, start_point_x_, start_point_y_,
    accumulated_delta_x, accumulated_delta_y,
    accumulated_delta_x_, accumulated_delta_y_,
    \* members of the InputHandlerProxy
    gesture_scroll_on_impl_thread_, gesture_pinch_on_impl_thread_,
    expect_scroll_update_end_, smooth_scroll_enabled_,
    fling_curve_, fling_parameters_sourceDevice,
    deferred_fling_cancel_time_seconds_,
    fling_may_be_active_on_main_thread_, touch_start_result_,
    \* the build: TRUE when NDEBUG is not defined (DCHECKs are compiled in)
    debug_build,
    \* "none" while the process runs, else how it ended
    crashed,
    \* the operation handled last and what it did
    last,
    \* the InputHandlerProxy that handled it: "self", whose members are the
    \* variables above, or "peer", a second instance in the same process
    proxy,
    \* the members of the second instance
    peer,
    \* a HandleInputModelMsg call and an input event in progress on two
    \* threads: where each one is and what it holds in locals
    race

governor == << msg_model, routing_id_, scrollSpeed >>
stream == << start_point_x, start_point_y, start_point_x_, start_point_y_,
             accumulated_delta_x, accumulated_delta_y,
             accumulated_delta_x_, accumulated_delta_y_ >>
flags == << gesture_scroll_on_impl_thread_, gesture_pinch_on_impl_thread_,
            expect_scroll_update_end_ >>
fling == << fling_curve_, fling_parameters_sourceDevice,
            deferred_fling_cancel_time_seconds_,
            fling_may_be_active_on_main_thread_ >>
config == << debug_build, smooth_scroll_enabled_ >>
touch == << touch_start_result_ >>
vars == << governor, stream, flags, fling, touch, config, crashed, last, proxy, peer, race >>

\* the members of a second InputHandlerProxy after construction
PeerInit ==
    [gesture_scroll_on_impl_thread_ |-> FALSE,
     gesture_pinch_on_impl_thread_ |-> FALSE,
     expect_scroll_update_end_ |-> FALSE]

\* no HandleInputModelMsg call and no input event is in progress
NoRace ==
    [setter |-> "idle", event |-> "idle", kind |-> "none",
     msg |-> "", speed |-> 0, loaded |-> 0, arg |-> 0, fps |-> 0,
     model0 |-> "", speed0 |-> 0]

\* neither thread is inside a call
Quiescent ==
    /\ race.setter \in {"idle", "done"}
    /\ race.event \in {"idle", "done"}

\* a handler that runs to completion on this proxy, on the one thread
Sequential ==
    /\ Quiescent
    /\ race' = NoRace
    /\ proxy' = "self"
    /\ UNCHANGED peer

\* what one operation did: the disposition handed to the callback
\* ("NONE" when there is none), the sleeps and outbound calls in order, the
\* clamped rate and the delay branches entered (0 and {} when the governor
\* did not run), the speed fed to the predictor, the collaborator's
\* did_scroll answer when ScrollBy was called, whether overscroll
\* parameters were handed to the callback, the blob of a SetModel, and the
\* gesture event's position, delta and delta units; for a fling event its
\* source device and velocity, and whether a scroll was active on the
\* compositor thread when it arrived
NoEvent ==
    [x |-> 0, y |-> 0, dx |-> 0, dy |-> 0, units |-> "None",
     device |-> "Uninitialized", vx |-> 0, vy |-> 0, scrolling |-> FALSE,
     answer |-> "None", scale |-> 0, zoomDisabled |-> FALSE,
     listeners |-> "None", result |-> "NONE", touches |-> 0]

Outcome(op, disposition, calls, fps, bands, speed, did_scroll, overscroll, msg) ==
    [op |-> op, disposition |-> disposition, calls |-> calls, fps |-> fps,
     bands |-> bands, speed |-> speed, did_scroll |-> did_scroll,
     overscroll |-> overscroll, msg |-> msg, event |-> NoEvent]

\* the outcome o of handling the gesture event at (x, y) with delta (dx, dy)
Of(o, x, y, dx, dy, units) ==
    [o EXCEPT !.event = [NoEvent EXCEPT !.x = x, !.y = y, !.dx = dx,
                                        !.dy = dy, !.units = units]]

\* the outcome o of handling a fling event
\* the thread the collaborator answered to the begin call of a
\* GestureScrollBegin ("None" if it was not asked)
Answered(o, units, answer) == [o EXCEPT !.event.answer = IF units = "Page" THEN "None" ELSE answer]

OfPinch(o, x, y, scale, zoomDisabled) == [o EXCEPT !.event = [NoEvent EXCEPT !.x = x, !.y = y, !.scale = scale, !.zoomDisabled = zoomDisabled]]

\* the outcome o of handling a MouseWheel event, the wheel listeners being
\* what GetEventListenerProperties(kMouseWheel) answered
OfWheel(o, properties) == [o EXCEPT !.event.listeners = properties]

\* the outcome o of handling a touch event: result is the result of a
\* TouchStart before the touch end handler is looked at ("NONE" for the
\* other touch events), touchesLength the touch points of a TouchEnd (0 for
\* the other touch events)
OfTouch(o, result, touchesLength) == [o EXCEPT !.event.result = result, !.event.touches = touchesLength]

OfFling(o, device, vx, vy, scrolling) ==
    [o EXCEPT !.event = [NoEvent EXCEPT !.device = device, !.vx = vx,
                                        !.vy = vy, !.scrolling = scrolling]]

Plain(op, disposition, calls) ==
    Outcome(op, disposition, calls, 0, {}, 0, FALSE, FALSE, "")

Init ==
    /\ msg_model = ""
    /\ routing_id_ = 0
    /\ scrollSpeed = 0
    /\ start_point_x = 0 /\ start_point_y = 0
    /\ start_point_x_ = 0 /\ start_point_y_ = 0
    /\ accumulated_delta_x = 0 /\ accumulated_delta_y = 0
    /\ accumulated_delta_x_ = 0 /\ accumulated_delta_y_ = 0
    /\ gesture_scroll_on_impl_thread_ = FALSE
    /\ gesture_pinch_on_impl_thread_ = FALSE
    /\ expect_scroll_update_end_ = FALSE
    /\ smooth_scroll_enabled_ = FALSE
    /\ fling_curve_ = FALSE
    /\ fling_parameters_sourceDevice = "Uninitialized"
    /\ deferred_fling_cancel_time_seconds_ = 0
    /\ fling_may_be_active_on_main_thread_ = FALSE
    /\ touch_start_result_ = kEventDispositionUndefined
    /\ proxy = "self"
    /\ peer = PeerInit
    /\ race = NoRace
    /\ debug_build \in BOOLEAN
    /\ crashed = "none"
    /\ last = Plain("none", "NONE", << >>)

\* ------------------------------------------------------------------------
\* HandleInputModelMsg(msg, routing_id, speed)
\* ------------------------------------------------------------------------
\* mutant: an empty blob overwrites the stored model
StoredModel_Always(old, msg) == msg

StoredModel(old, msg) == IF msg # "" /\ Len(msg) # 0 THEN msg ELSE old

\* mutant: a speed of 0 is stored as it is
StoredSpeed_NoDefault(speed) == speed

StoredSpeed(speed) == IF speed = 0 THEN kDefaultSpeed ELSE speed

HandleInputModelMsg(msg, routing_id, speed) ==
    /\ crashed = "none"
    /\ Sequential /\ UNCHANGED touch
    /\ routing_id_' = routing_id
    /\ msg_model' = StoredModel(msg_model, msg)
    /\ scrollSpeed' = StoredSpeed(speed)
    /\ last' = Outcome("SetModel", "NONE", << >>, 0, {}, speed, FALSE, FALSE,
                       msg)
    /\ UNCHANGED << stream, flags, fling, config, crashed >>

\* set_smooth_scroll_enabled(value) of the header
set_smooth_scroll_enabled(value) ==
    /\ crashed = "none"
    /\ Sequential /\ UNCHANGED touch
    /\ smooth_scroll_enabled_ # value
    /\ smooth_scroll_enabled_' = value
    /\ last' = Plain("set_smooth_scroll_enabled", "NONE", << >>)
    /\ UNCHANGED << governor, stream, flags, fling, debug_build, crashed >>

\* not OS_MACOSX
ShouldAnimate(has_precise_scroll_deltas) ==
    smooth_scroll_enabled_ /\ ~has_precise_scroll_deltas

\* CancelCurrentFlingWithoutNotifyingClient: the calls it makes (the other
\* effects are in the handlers that call it); last_fling_boost_event_ is
\* never set, so no GestureScrollBegin is synthesized
CancelFlingCalls ==
    IF fling_curve_ /\ fling_parameters_sourceDevice = "Touchscreen"
    THEN << Call("ScrollEnd", 0, 0) >>
    ELSE << >>

\* CancelCurrentFling: had_fling_animation, and the calls
CancelCurrentFlingCalls ==
    CancelFlingCalls
    \o (IF fling_curve_ THEN << Call("DidStopFlinging", 0, 0) >> ELSE << >>)

\* ------------------------------------------------------------------------
\* GestureScrollBegin
\* ------------------------------------------------------------------------
\* mutant: a single sentinel coordinate is enough
IsSentinelPoint_EitherCoordinate(x, y) == x = -1 \/ y = -1 \/ x = 0 \/ y = 0

IsSentinelPoint(x, y) == (x = -1 /\ y = -1) \/ (x = 0 /\ y = 0)

\* the disposition for the collaborator's scroll status
ScrollBeginDisposition(thread) ==
    CASE thread = "SCROLL_ON_IMPL_THREAD" -> "DID_HANDLE"
      [] thread = "SCROLL_IGNORED" -> "DROP_EVENT"
      [] OTHER -> "DID_NOT_HANDLE"

HandleGestureScrollBegin(pt, units, targetViewport, answer) ==
    LET x == pt[1]
        y == pt[2]
        cancel == IF gesture_scroll_on_impl_thread_
                  THEN CancelCurrentFlingCalls ELSE << >>
        dcheck_fails == debug_build /\ expect_scroll_update_end_
        begin == IF units = "Page" THEN << >>
                 ELSE IF targetViewport
                 THEN << Call("RootScrollBegin", x, y) >>
                 ELSE IF ShouldAnimate(units # "Pixels")
                 THEN << Call("ScrollAnimatedBegin", x, y) >>
                 ELSE << Call("ScrollBegin", x, y) >>
        thread == IF units = "Page" THEN "SCROLL_ON_MAIN_THREAD" ELSE answer
    IN /\ crashed = "none"
       /\ Sequential /\ UNCHANGED touch
       /\ IF IsSentinelPoint(x, y)
          THEN /\ last' = Of(Plain("ScrollBegin", "DROP_EVENT", << >>),
                            x, y, 0, 0, units)
               /\ UNCHANGED << governor, stream, flags, fling, config,
                               crashed >>
          ELSE /\ start_point_x' = x
               /\ start_point_y' = y
               /\ fling_curve_' =
                      IF gesture_scroll_on_impl_thread_ THEN FALSE
                      ELSE fling_curve_
               /\ fling_parameters_sourceDevice' =
                      IF gesture_scroll_on_impl_thread_ THEN "Uninitialized"
                      ELSE fling_parameters_sourceDevice
               /\ deferred_fling_cancel_time_seconds_' =
                      IF gesture_scroll_on_impl_thread_ THEN 0
                      ELSE deferred_fling_cancel_time_seconds_
               /\ IF dcheck_fails
                  THEN /\ crashed' = "dcheck"
                       /\ gesture_scroll_on_impl_thread_' = FALSE
                       /\ last' = Of(Plain("ScrollBegin", "NONE", cancel),
                                    x, y, 0, 0, units)
                       /\ UNCHANGED expect_scroll_update_end_
                  ELSE /\ crashed' = "none"
                       /\ expect_scroll_update_end_' = debug_build
                       /\ gesture_scroll_on_impl_thread_' =
                              (thread = "SCROLL_ON_IMPL_THREAD")
                       /\ last' = Answered(Of(Plain("ScrollBegin",
                                                   ScrollBeginDisposition(thread),
                                                   cancel \o begin),
                                             x, y, 0, 0, units),
                                          units, answer)
               /\ UNCHANGED << governor, start_point_x_, start_point_y_,
                               accumulated_delta_x, accumulated_delta_y,
                               accumulated_delta_x_, accumulated_delta_y_,
                               gesture_pinch_on_impl_thread_,
                               fling_may_be_active_on_main_thread_, config >>

\* ------------------------------------------------------------------------
\* GestureScrollUpdate
\* ------------------------------------------------------------------------
\* the disposition for the answer of ScrollAnimated
ScrollAnimatedDisposition(thread) ==
    CASE thread = "SCROLL_ON_IMPL_THREAD" -> "DID_HANDLE"
      [] thread = "SCROLL_IGNORED" -> "DROP_EVENT"
      [] OTHER -> "DID_NOT_HANDLE"

\* CreateScrollStateForGesture: the delta of the scroll state handed to
\* ScrollBy is the negation of the event's own delta (the variant built from
\* the accumulated delta is commented out); accumulated is the accumulator
\* before the event
\* mutant: the batched variant, the accumulated delta is forwarded
ScrollStateDelta_Accumulated(delta, accumulated) == -(accumulated + delta)

ScrollStateDelta(delta, accumulated) == -delta

\* how far the handler gets
ScrollUpdateStage(exits, units) ==
    IF exits THEN "exit"
    ELSE IF debug_build /\ ~expect_scroll_update_end_ THEN "dcheck"
    ELSE IF ~gesture_scroll_on_impl_thread_
            /\ ~gesture_pinch_on_impl_thread_ THEN "inactive"
    ELSE IF ShouldAnimate(units # "Pixels") THEN "animated"
    ELSE "scrollby"

\* mutant: the test of the two flags comes before the governor's delay
ScrollUpdateDelay_CheckFirst(stage, delayed) ==
    IF stage = "inactive" THEN << >> ELSE delayed

\* what a GestureScrollUpdate does before it looks at the DCHECK and at the
\* two flags: the predictor's calls and the sleeps, whatever the stage is
ScrollUpdateDelay(stage, delayed) == delayed

\* the handler given what it got from the governor's globals: speed is the
\* argument of predict, model_text the model predict read, and stored the
\* value of scrollSpeed once the handler is through with it
GestureScrollUpdateBody(pt, delta, units, did_scroll, did_overscroll_root, answer, speed, model_text, stored) ==
    LET x == pt[1]
        y == pt[2]
        deltaX == delta[1]
        deltaY == delta[2]
        p == predict(model_text, speed)
        fps == ClampFps(p.num, p.den)
        stage == ScrollUpdateStage(p.exit, units)
        forwarded == stage \in {"animated", "scrollby"}
        delayed == ScrollUpdateDelay(stage, p.calls \o ScrollSleeps(fps))
        calls == CASE stage = "exit" -> p.calls
                   [] stage = "animated" ->
                        delayed \o << Call("ScrollAnimated", -deltaX, -deltaY) >>
                   [] stage = "scrollby" ->
                        delayed
                        \o << Call("ScrollBy",
                                   ScrollStateDelta(deltaX, accumulated_delta_x),
                                   ScrollStateDelta(deltaY, accumulated_delta_y)) >>
                   [] OTHER -> delayed
        disposition == CASE stage \in {"exit", "dcheck"} -> "NONE"
                         [] stage = "inactive" -> "DID_NOT_HANDLE"
                         [] stage = "animated" ->
                              ScrollAnimatedDisposition(answer)
                         [] stage = "scrollby" ->
                              IF did_scroll THEN "DID_HANDLE"
                              ELSE "DROP_EVENT"
    IN /\ crashed = "none"
       /\ forwarded => /\ Abs(accumulated_delta_x + deltaX) <= MaxAccum
                       /\ Abs(accumulated_delta_y + deltaY) <= MaxAccum
       /\ scrollSpeed' = stored
       /\ crashed' = IF stage \in {"exit", "dcheck"} THEN stage ELSE "none"
       /\ start_point_x_' =
              CASE stage = "animated" ->
                     IF start_point_x_ = 0 THEN x ELSE start_point_x_
                [] stage = "scrollby" -> 0
                [] OTHER -> start_point_x_
       /\ start_point_y_' =
              CASE stage = "animated" ->
                     IF start_point_y_ = 0 THEN y ELSE start_point_y_
                [] stage = "scrollby" -> 0
                [] OTHER -> start_point_y_
       /\ accumulated_delta_x_' =
              CASE stage = "animated" -> accumulated_delta_x_ + deltaX
                [] stage = "scrollby" -> 0
                [] OTHER -> accumulated_delta_x_
       /\ accumulated_delta_y_' =
              CASE stage = "animated" -> accumulated_delta_y_ + deltaY
                [] stage = "scrollby" -> 0
                [] OTHER -> accumulated_delta_y_
       /\ accumulated_delta_x' =
              IF forwarded THEN accumulated_delta_x + deltaX
              ELSE accumulated_delta_x
       /\ accumulated_delta_y' =
              IF forwarded THEN accumulated_delta_y + deltaY
              ELSE accumulated_delta_y
       /\ last' = Of(Outcome("ScrollUpdate", disposition, calls,
                             IF stage = "exit" THEN 0 ELSE fps,
                             IF stage = "exit" THEN {} ELSE ScrollBands(fps),
                             speed,
                             stage = "scrollby" /\ did_scroll,
                             stage = "scrollby" /\ did_overscroll_root,
                             ""),
                     x, y, deltaX, deltaY, units)
       /\ UNCHANGED << msg_model, routing_id_, start_point_x, start_point_y,
                       flags, fling, config >>

\* mutant: the stored speed is fed to predict undivided and kept
HandleGestureScrollUpdate_NoDivide(pt, delta, units, did_scroll, did_overscroll_root, answer) ==
    /\ Sequential /\ UNCHANGED touch
    /\ GestureScrollUpdateBody(pt, delta, units, did_scroll, did_overscroll_root, answer, scrollSpeed, msg_model, scrollSpeed)

\* scrollSpeed = scrollSpeed/50, then predict(scrollSpeed) reads msg_model
HandleGestureScrollUpdate(pt, delta, units, did_scroll, did_overscroll_root, answer) ==
    /\ Sequential /\ UNCHANGED touch
    /\ GestureScrollUpdateBody(pt, delta, units, did_scroll, did_overscroll_root, answer, TruncDiv(scrollSpeed, kSpeedDivisor), msg_model, TruncDiv(scrollSpeed, kSpeedDivisor))

\* ------------------------------------------------------------------------
\* GestureScrollEnd
\* ------------------------------------------------------------------------
HandleGestureScrollEnd(units) ==
    LET dcheck_fails == debug_build /\ ~expect_scroll_update_end_
        animate == ShouldAnimate(units # "Pixels")
    IN /\ crashed = "none"
       /\ Sequential /\ UNCHANGED touch
       /\ IF dcheck_fails
          THEN /\ crashed' = "dcheck"
               /\ last' = Of(Plain("ScrollEnd", "NONE", << >>),
                            0, 0, 0, 0, units)
               /\ UNCHANGED << governor, stream, flags, fling, config >>
          ELSE /\ expect_scroll_update_end_' = FALSE
               /\ start_point_x_' = IF animate THEN start_point_x_ ELSE 0
               /\ start_point_y_' = IF animate THEN start_point_y_ ELSE 0
               /\ accumulated_delta_x_' =
                      IF animate THEN accumulated_delta_x_ ELSE 0
               /\ accumulated_delta_y_' =
                      IF animate THEN accumulated_delta_y_ ELSE 0
               /\ gesture_scroll_on_impl_thread_' = FALSE
               /\ last' = Of(Plain("ScrollEnd",
                                  IF gesture_scroll_on_impl_thread_
                                  THEN "DID_HANDLE" ELSE "DID_NOT_HANDLE",
                                  IF animate THEN << >>
                                  ELSE << Call("ScrollEnd", 0, 0) >>),
                            0, 0, 0, 0, units)
               /\ UNCHANGED << governor, start_point_x, start_point_y,
                               accumulated_delta_x, accumulated_delta_y,
                               gesture_pinch_on_impl_thread_,
                               fling, config, crashed >>

\* ------------------------------------------------------------------------
\* GesturePinchBegin, GesturePinchEnd, GesturePinchUpdate
\* ------------------------------------------------------------------------
HandleGesturePinchBegin(device, wheel_listeners) ==
    LET dcheck_fails == debug_build /\ gesture_pinch_on_impl_thread_
        to_main == device = "Touchpad" /\ wheel_listeners # "kNone"
    IN /\ crashed = "none"
       /\ Sequential /\ UNCHANGED touch
       /\ crashed' = IF dcheck_fails THEN "dcheck" ELSE "none"
       /\ gesture_pinch_on_impl_thread_' =
              IF dcheck_fails \/ to_main THEN gesture_pinch_on_impl_thread_
              ELSE TRUE
       /\ last' = IF dcheck_fails THEN Plain("PinchBegin", "NONE", << >>)
                  ELSE IF to_main
                  THEN Plain("PinchBegin", "DID_NOT_HANDLE", << >>)
                  ELSE Plain("PinchBegin", "DID_HANDLE",
                             << Call("PinchGestureBegin", 0, 0) >>)
       /\ UNCHANGED << governor, stream, gesture_scroll_on_impl_thread_,
                       expect_scroll_update_end_, fling, config >>

\* mutant: PinchGestureEnd is sent whether or not a pinch is active
PinchEndCalls_Unconditional(active) == << Call("PinchGestureEnd", 0, 0) >>

\* mutant: GesturePinchEnd is delayed by one frame
PinchEndCalls_Delayed(active) ==
    IF active THEN << Sleep(kFrameMicros), Call("PinchGestureEnd", 0, 0) >>
    ELSE << >>

\* what GesturePinchEnd sends to the collaborator
PinchEndCalls(active) ==
    IF active THEN << Call("PinchGestureEnd", 0, 0) >> ELSE << >>

HandleGesturePinchEnd ==
    /\ crashed = "none"
    /\ Sequential /\ UNCHANGED touch
    /\ gesture_pinch_on_impl_thread_' = FALSE
    /\ last' = Plain("PinchEnd",
                     IF gesture_pinch_on_impl_thread_ THEN "DID_HANDLE"
                     ELSE "DID_NOT_HANDLE",
                     PinchEndCalls(gesture_pinch_on_impl_thread_))
    /\ UNCHANGED << governor, stream, gesture_scroll_on_impl_thread_,
                    expect_scroll_update_end_, fling, config, crashed >>

\* mutant: zoomDisabled is tested before the delay
PinchUpdateCalls_CheckFirst(delayed, zoomDisabled, update) ==
    IF zoomDisabled THEN << >> ELSE delayed \o << update >>

\* what an update of an active pinch does: the sleeps, then the test of
\* zoomDisabled, then the PinchGestureUpdate call
PinchUpdateCalls(delayed, zoomDisabled, update) ==
    IF zoomDisabled THEN delayed ELSE delayed \o << update >>

\* the handler given what it got from the governor's globals: speed is the
\* value of scrollSpeed the rate is computed from, and stored the value of
\* scrollSpeed once an active pinch is through with it
GesturePinchUpdateBody(pt, scale, zoomDisabled, speed, stored) ==
    LET fps == ClampFps(PinchFpsNum(speed), PinchFpsDen)
        delayed == PinchSleeps(fps)
    IN /\ crashed = "none"
       /\ IF gesture_pinch_on_impl_thread_
          THEN /\ scrollSpeed' = stored
               /\ last' = OfPinch(Outcome(
                      "PinchUpdate",
                      IF zoomDisabled THEN "DROP_EVENT" ELSE "DID_HANDLE",
                      PinchUpdateCalls(delayed, zoomDisabled,
                                       Call3("PinchGestureUpdate",
                                             pt[1], pt[2], scale)),
                      fps, PinchBands(fps), speed, FALSE, FALSE, ""),
                      pt[1], pt[2], scale, zoomDisabled)
          ELSE /\ scrollSpeed' = scrollSpeed
               /\ last' = OfPinch(Plain("PinchUpdate", "DID_NOT_HANDLE",
                                        << >>),
                                  pt[1], pt[2], scale, zoomDisabled)
       /\ UNCHANGED << msg_model, routing_id_, stream, flags, fling, config,
                       crashed >>

\* mutant: the stored speed survives a GesturePinchUpdate
HandleGesturePinchUpdate_KeepSpeed(pt, scale, zoomDisabled) ==
    /\ Sequential /\ UNCHANGED touch
    /\ GesturePinchUpdateBody(pt, scale, zoomDisabled, scrollSpeed, scrollSpeed)

\* double fps = 0.0213*scrollSpeed+15.6; scrollSpeed = 0;
HandleGesturePinchUpdate(pt, scale, zoomDisabled) ==
    /\ Sequential /\ UNCHANGED touch
    /\ GesturePinchUpdateBody(pt, scale, zoomDisabled, scrollSpeed, 0)

\* ------------------------------------------------------------------------
\* GestureFlingStart falls through to GestureFlingCancel
\* ------------------------------------------------------------------------
FlingCancelDisposition ==
    IF fling_curve_ THEN "DID_HANDLE"
    ELSE IF ~fling_may_be_active_on_main_thread_ THEN "DROP_EVENT"
    ELSE "DID_NOT_HANDLE"

\* FilterInputEventForFlingBoosting returns false in its first statement;
\* the boost logic after it is never executed
FilterInputEventForFlingBoosting(op) == FALSE

HandleGestureFlingCancel(op, device, vx, vy) ==
    /\ crashed = "none"
    /\ Sequential /\ UNCHANGED touch
    /\ IF FilterInputEventForFlingBoosting(op)
       THEN /\ last' = OfFling(Plain(op, "DID_HANDLE", << >>), device, vx, vy,
                               gesture_scroll_on_impl_thread_)
            /\ UNCHANGED << flags, fling >>
       ELSE /\ expect_scroll_update_end_' =
                   IF op = "FlingStart" THEN FALSE
                   ELSE expect_scroll_update_end_
            /\ fling_curve_' = FALSE
            /\ fling_parameters_sourceDevice' = "Uninitialized"
            /\ deferred_fling_cancel_time_seconds_' = 0
            /\ gesture_scroll_on_impl_thread_' = FALSE
            /\ last' = OfFling(Plain(op, FlingCancelDisposition,
                                     CancelCurrentFlingCalls),
                               device, vx, vy, gesture_scroll_on_impl_thread_)
            /\ UNCHANGED << gesture_pinch_on_impl_thread_,
                            fling_may_be_active_on_main_thread_ >>
    /\ UNCHANGED << governor, stream, config, crashed >>

\* mutant: GestureFlingStart is routed to the handler that starts a fling
HandleGestureFlingStart_Routed(device, vx, vy) ==
    /\ crashed = "none"
    /\ Sequential /\ UNCHANGED touch
    /\ fling_curve_' = TRUE
    /\ fling_parameters_sourceDevice' = device
    /\ last' = OfFling(Plain("FlingStart", "DID_HANDLE",
                             << Call("FlingScrollBegin", 0, 0) >>),
                       device, vx, vy, gesture_scroll_on_impl_thread_)
    /\ UNCHANGED << governor, stream, flags, config, crashed,
                    deferred_fling_cancel_time_seconds_,
                    fling_may_be_active_on_main_thread_ >>

\* the GestureFlingStart case: the call of HandleGestureFlingStart is
\* commented out and the case falls through to GestureFlingCancel
HandleGestureFlingStart(device, vx, vy) ==
    HandleGestureFlingCancel("FlingStart", device, vx, vy)

\* ------------------------------------------------------------------------
\* MouseWheel, touch, mouse and keyboard events
\* ------------------------------------------------------------------------
\* the values of enum EventDisposition, which touch_start_result_ holds as
\* an int32_t next to kEventDispositionUndefined
DispositionCode(d) ==
    CASE d = "DID_HANDLE" -> 0
      [] d = "DID_HANDLE_NON_BLOCKING" -> 1
      [] d = "DID_NOT_HANDLE" -> 2
      [] d = "DROP_EVENT" -> 3

DispositionOf(code) == CHOOSE d \in Dispositions : DispositionCode(d) = code

\* CancelCurrentFling called only if a fling is active (cancel), by the
\* handlers of wheel and keyboard events
CancelFlingIfActive(cancel) ==
    IF cancel
    THEN /\ fling_curve_' = FALSE
         /\ fling_parameters_sourceDevice' = "Uninitialized"
         /\ deferred_fling_cancel_time_seconds_' = 0
         /\ gesture_scroll_on_impl_thread_' = FALSE
         /\ UNCHANGED << gesture_pinch_on_impl_thread_,
                         expect_scroll_update_end_,
                         fling_may_be_active_on_main_thread_ >>
    ELSE UNCHANGED << flags, fling >>

\* mutant: blocking-and-passive wheel listeners are treated as passive
WheelDisposition_PassiveWins(properties) ==
    CASE properties \in {"kPassive", "kBlockingAndPassive"} ->
           "DID_HANDLE_NON_BLOCKING"
      [] properties = "kBlocking" -> "DID_NOT_HANDLE"
      [] properties = "kNone" -> "DROP_EVENT"

\* the switch on the wheel listeners
WheelDisposition(properties) ==
    CASE properties = "kPassive" -> "DID_HANDLE_NON_BLOCKING"
      [] properties \in {"kBlockingAndPassive", "kBlocking"} ->
           "DID_NOT_HANDLE"
      [] properties = "kNone" -> "DROP_EVENT"

HandleMouseWheel(hasPreciseScrollingDeltas, properties) ==
    LET cancel == ~hasPreciseScrollingDeltas /\ fling_curve_
    IN /\ crashed = "none"
       /\ Sequential
       /\ CancelFlingIfActive(cancel)
       /\ last' = OfWheel(Plain("MouseWheel", WheelDisposition(properties),
                                IF cancel THEN CancelCurrentFlingCalls
                                ELSE << >>),
                          properties)
       /\ UNCHANGED << governor, stream, touch, config, crashed >>

\* the result of HandleTouchStart before the touch end handler is looked
\* at: blocks is DoTouchEventsBlockScrollAt for some pressed touch point
TouchStartResult(blocks, start_or_move) ==
    IF blocks THEN "DID_NOT_HANDLE"
    ELSE CASE start_or_move \in {"kPassive", "kBlockingAndPassive"} ->
                "DID_HANDLE_NON_BLOCKING"
           [] start_or_move \in {"kBlocking", "kNone"} -> "DROP_EVENT"

\* mutant: the latest result always replaces the remembered one
MergedTouchResult_Latest(old, result) == DispositionCode(result)

\* the merge of touch_start_result_ (old) and the new result
MergedTouchResult(old, result) ==
    IF \/ old = kEventDispositionUndefined
       \/ old = DispositionCode("DROP_EVENT")
       \/ result = "DID_NOT_HANDLE"
    THEN DispositionCode(result)
    ELSE old

HandleTouchStart(blocks, start_or_move, end_or_cancel) ==
    LET result == TouchStartResult(blocks, start_or_move)
    IN /\ crashed = "none"
       /\ Sequential
       /\ touch_start_result_' = MergedTouchResult(touch_start_result_, result)
       /\ last' = OfTouch(Plain("TouchStart",
                                IF result = "DROP_EVENT" /\ end_or_cancel # "kNone"
                                THEN "DID_HANDLE_NON_BLOCKING" ELSE result,
                                << >>),
                          result, 0)
       /\ UNCHANGED << governor, stream, flags, fling, config, crashed >>

HandleTouchMove ==
    /\ crashed = "none"
    /\ Sequential
    /\ last' = Plain("TouchMove",
                     IF touch_start_result_ # kEventDispositionUndefined
                     THEN DispositionOf(touch_start_result_)
                     ELSE "DID_NOT_HANDLE",
                     << >>)
    /\ UNCHANGED << governor, stream, flags, fling, touch, config, crashed >>

HandleTouchEnd(touchesLength) ==
    /\ crashed = "none"
    /\ Sequential
    /\ touch_start_result_' =
           IF touchesLength = 1 THEN kEventDispositionUndefined
           ELSE touch_start_result_
    /\ last' = OfTouch(Plain("TouchEnd", "DID_NOT_HANDLE", << >>),
                       "NONE", touchesLength)
    /\ UNCHANGED << governor, stream, flags, fling, config, crashed >>

\* MouseDown, MouseUp, MouseMove and MouseLeave
MouseCalls(type, left_button, pt) ==
    CASE type = "MouseDown" ->
           IF left_button THEN << Call("MouseDown", 0, 0) >> ELSE << >>
      [] type = "MouseUp" ->
           IF left_button THEN << Call("MouseUp", 0, 0) >> ELSE << >>
      [] type = "MouseMove" -> << Call("MouseMoveAt", pt[1], pt[2]) >>
      [] type = "MouseLeave" -> << Call("MouseLeave", 0, 0) >>

HandleMouseEvent(type, left_button, pt) ==
    /\ crashed = "none"
    /\ Sequential
    /\ last' = Plain(type, "DID_NOT_HANDLE", MouseCalls(type, left_button, pt))
    /\ UNCHANGED << governor, stream, flags, fling, touch, config, crashed >>

\* the default case: a keyboard event cancels an active fling, any other
\* event type does nothing
HandleOtherEvent(is_keyboard) ==
    LET cancel == is_keyboard /\ fling_curve_
    IN /\ crashed = "none"
       /\ Sequential
       /\ CancelFlingIfActive(cancel)
       /\ last' = Plain(IF is_keyboard THEN "Keyboard" ELSE "Other",
                        "DID_NOT_HANDLE",
                        IF cancel THEN CancelCurrentFlingCalls ELSE << >>)
       /\ UNCHANGED << governor, stream, touch, config, crashed >>

\* ------------------------------------------------------------------------
\* Specification
\* ------------------------------------------------------------------------
SetModel ==
    \E msg \in Models, routing_id \in RoutingIds, speed \in Speeds :
        HandleInputModelMsg(msg, routing_id, speed)

SetSmoothScroll == \E value \in BOOLEAN : set_smooth_scroll_enabled(value)

ScrollBegin ==
    \E pt \in BeginPoints, c \in BeginCases :
        HandleGestureScrollBegin(pt, c.units, c.targetViewport, c.answer)

ScrollUpdate ==
    \E pt \in UpdatePoints, delta \in Deltas, units \in UpdateUnits :
        \E reply \in IF ShouldAnimate(units # "Pixels")
                     THEN ScrollAnimatedReplies ELSE ScrollByReplies :
            HandleGestureScrollUpdate(pt, delta, units, reply.did_scroll,
                                      reply.did_overscroll_root, reply.thread)

ScrollEnd == \E units \in UpdateUnits : HandleGestureScrollEnd(units)

PinchBegin ==
    \E c \in PinchBeginCases :
        HandleGesturePinchBegin(c.device, c.wheel_listeners)

PinchUpdate ==
    \E pt \in PinchPoints, scale \in PinchScales, zoomDisabled \in BOOLEAN :
        HandleGesturePinchUpdate(pt, scale, zoomDisabled)

PinchEnd == HandleGesturePinchEnd

FlingStart ==
    \E device \in Devices, v \in FlingVelocities :
        HandleGestureFlingStart(device, v[1], v[2])

FlingCancel ==
    \E device \in Devices :
        HandleGestureFlingCancel("FlingCancel", device, 0, 0)

Next ==
    \/ SetModel
    \/ SetSmoothScroll
    \/ ScrollBegin
    \/ ScrollUpdate
    \/ ScrollEnd
    \/ PinchBegin
    \/ PinchUpdate
    \/ PinchEnd
    \/ FlingStart
    \/ FlingCancel

Spec == Init /\ [][Next]_vars

\* The same program driven through every rate: a model whose prediction is
\* its input (svrI) or its input less 0.4 (svrH), and speeds 50 * k
SweepSetModel ==
    \E msg \in SweepModels, routing_id \in RoutingIds, speed \in SweepSpeeds :
        HandleInputModelMsg(msg, routing_id, speed)

SweepScrollBegin ==
    \E pt \in BeginPoints :
        HandleGestureScrollBegin(pt, "PrecisePixels", FALSE,
                                 "SCROLL_ON_IMPL_THREAD")

SweepScrollUpdate ==
    \E pt \in UpdatePoints, delta \in SweepDeltas, did_scroll \in BOOLEAN :
        HandleGestureScrollUpdate(pt, delta, "PrecisePixels", did_scroll,
                                  FALSE, "SCROLL_UNKNOWN")

SweepPinchBegin == HandleGesturePinchBegin("Touchscreen", "kNone")

SweepPinchUpdate ==
    \E pt \in UpdatePoints : HandleGesturePinchUpdate(pt, 125, FALSE)

SweepNext ==
    \/ SweepSetModel
    \/ SweepScrollBegin
    \/ SweepScrollUpdate
    \/ SweepPinchBegin
    \/ SweepPinchUpdate

SweepSpec == Init /\ [][SweepNext]_vars

\* The same program driven through scroll streams with several positions
\* and deltas, under one model
StreamSetModel == HandleInputModelMsg("svrA", 1, 200)

StreamSmoothScroll == \E value \in BOOLEAN : set_smooth_scroll_enabled(value)

StreamScrollBegin ==
    \E pt \in StreamBeginPoints, c \in BeginCases :
        /\ c.answer \in {"SCROLL_ON_IMPL_THREAD", "SCROLL_ON_MAIN_THREAD"}
        /\ HandleGestureScrollBegin(pt, c.units, c.targetViewport, c.answer)

StreamScrollUpdate ==
    \E pt \in UpdatePoints, delta \in StreamDeltas, units \in UpdateUnits :
        HandleGestureScrollUpdate(pt, delta, units, TRUE, FALSE,
                                  "SCROLL_ON_IMPL_THREAD")

StreamScrollEnd == \E units \in UpdateUnits : HandleGestureScrollEnd(units)

StreamFlingStart == HandleGestureFlingStart("Touchscreen", 0, 2000)

StreamFlingCancel ==
    HandleGestureFlingCancel("FlingCancel", "Touchscreen", 0, 0)

StreamNext ==
    \/ StreamSetModel
    \/ StreamSmoothScroll
    \/ StreamScrollBegin
    \/ StreamScrollUpdate
    \/ StreamScrollEnd
    \/ StreamFlingStart
    \/ StreamFlingCancel

StreamSpec == Init /\ [][StreamNext]_vars

\* The same program fed every type of input event, touch, wheel, mouse and
\* keyboard events included, with few values of each
InputModels == {"", "svrA", "svrB"}
InputSpeeds == {0, 3000}
TouchesLengths == {1, 2}
MouseTypes == {"MouseDown", "MouseUp", "MouseMove", "MouseLeave"}

InputSetModel ==
    \E msg \in InputModels, speed \in InputSpeeds :
        HandleInputModelMsg(msg, 1, speed)

InputScrollBegin ==
    \E answer \in {"SCROLL_ON_IMPL_THREAD", "SCROLL_ON_MAIN_THREAD"} :
        HandleGestureScrollBegin(<<7, 5>>, "Pixels", FALSE, answer)

InputScrollUpdate ==
    \E did_scroll \in BOOLEAN :
        HandleGestureScrollUpdate(<<7, 3>>, <<0, 0>>, "Pixels", did_scroll,
                                  FALSE, "SCROLL_ON_IMPL_THREAD")

MouseWheel ==
    \E hasPreciseScrollingDeltas \in BOOLEAN, properties \in ListenerProperties :
        HandleMouseWheel(hasPreciseScrollingDeltas, properties)

TouchStart ==
    \E blocks \in BOOLEAN, start_or_move \in ListenerProperties,
       end_or_cancel \in ListenerProperties :
        HandleTouchStart(blocks, start_or_move, end_or_cancel)

TouchEnd == \E touchesLength \in TouchesLengths : HandleTouchEnd(touchesLength)

MouseEvent ==
    \E type \in MouseTypes, left_button \in BOOLEAN :
        HandleMouseEvent(type, left_button, <<7, 3>>)

OtherEvent == \E is_keyboard \in BOOLEAN : HandleOtherEvent(is_keyboard)

InputNext ==
    \/ InputSetModel
    \/ InputScrollBegin
    \/ InputScrollUpdate
    \/ HandleGestureScrollEnd("Pixels")
    \/ HandleGesturePinchBegin("Touchscreen", "kNone")
    \/ HandleGesturePinchUpdate(<<7, 3>>, 125, FALSE)
    \/ HandleGesturePinchEnd
    \/ HandleGestureFlingStart("Touchscreen", 0, 2000)
    \/ HandleGestureFlingCancel("FlingCancel", "Touchscreen", 0, 0)
    \/ MouseWheel
    \/ TouchStart
    \/ HandleTouchMove
    \/ TouchEnd
    \/ MouseEvent
    \/ OtherEvent

InputSpec == Init /\ [][InputNext]_vars

\* ------------------------------------------------------------------------
\* HandleInputModelMsg on one thread, an input event on another
\* ------------------------------------------------------------------------
\* msg_model, routing_id_ and scrollSpeed are plain file-scope objects and
\* neither function takes a lock: each access of either thread is a step
\* of its own.  race.setter is where the HandleInputModelMsg call is,
\* race.event where the event handler is; msg and speed are the arguments
\* of the call, loaded and arg what the handler has read from scrollSpeed,
\* fps the clamped rate it used, model0 and speed0 the stored model and
\* speed when the first of the two calls began.
RaceModels == {"", "svrA", "svrB"}
RaceSpeeds == {0, 3000}

\* the record a call starts from: the one of the call in progress on the
\* other thread, or a new one
RaceBase ==
    IF Quiescent
    THEN [NoRace EXCEPT !.model0 = msg_model, !.speed0 = scrollSpeed]
    ELSE race

RaceFrame ==
    /\ crashed = "none"
    /\ proxy' = "self"
    /\ UNCHANGED << peer, touch, stream, flags, fling, config, crashed >>

\* routing_id_ = routing_id
SetModelStoreRoutingId(msg, routing_id, speed) ==
    /\ RaceFrame
    /\ race.setter = "idle" \/ Quiescent
    /\ race' = [RaceBase EXCEPT !.setter = "model", !.msg = msg,
                                !.speed = speed]
    /\ routing_id_' = routing_id
    /\ UNCHANGED << msg_model, scrollSpeed, last >>

\* if(msg!=""&&msg.length()!=0){msg_model = msg;}: the test, and the start
\* of the assignment of the string
SetModelBeginStoreModel ==
    /\ RaceFrame
    /\ race.setter = "model"
    /\ race' = [race EXCEPT !.setter =
                    IF StoredModel(msg_model, race.msg) = race.msg
                       /\ race.msg # ""
                    THEN "writing" ELSE "speed"]
    /\ UNCHANGED << governor, last >>

\* the assignment of the string is complete
SetModelEndStoreModel ==
    /\ RaceFrame
    /\ race.setter = "writing"
    /\ race' = [race EXCEPT !.setter = "speed"]
    /\ msg_model' = race.msg
    /\ UNCHANGED << routing_id_, scrollSpeed, last >>

\* speed = speed==0?200:speed; scrollSpeed = speed;
SetModelStoreSpeed ==
    /\ RaceFrame
    /\ race.setter = "speed"
    /\ race' = [race EXCEPT !.setter = "done"]
    /\ scrollSpeed' = StoredSpeed(race.speed)
    /\ last' = Outcome("SetModel", "NONE", << >>, 0, {}, race.speed, FALSE,
                       FALSE, race.msg)
    /\ UNCHANGED << msg_model, routing_id_ >>

\* scrollSpeed = scrollSpeed/50: the read
ScrollUpdateLoadSpeed ==
    /\ RaceFrame
    /\ race.event = "idle" \/ Quiescent
    /\ race' = [RaceBase EXCEPT !.event = "store", !.kind = "scroll",
                                !.loaded = scrollSpeed]
    /\ UNCHANGED << governor, last >>

\* scrollSpeed = scrollSpeed/50: the write
ScrollUpdateStoreSpeed ==
    /\ RaceFrame
    /\ race.event = "store"
    /\ race' = [race EXCEPT !.event = "arg"]
    /\ scrollSpeed' = TruncDiv(race.loaded, kSpeedDivisor)
    /\ UNCHANGED << msg_model, routing_id_, last >>

\* predict(scrollSpeed): the argument is read
ScrollUpdateLoadArgument ==
    /\ RaceFrame
    /\ race.event = "arg"
    /\ race' = [race EXCEPT !.event = "predict", !.arg = scrollSpeed]
    /\ UNCHANGED << governor, last >>

\* what a read of msg_model can give: the string, or, while the other
\* thread is assigning it, the old one, the new one or a torn one, which
\* is no model
ModelsRead ==
    IF race.setter = "writing" THEN {msg_model, race.msg, "garbage"}
    ELSE {msg_model}

\* the rate a scroll update uses for a model and a speed (0: no rate, the
\* process exits)
ScrollRate(model_text, speed) ==
    LET p == predict(model_text, speed)
    IN IF p.exit THEN 0 ELSE ClampFps(p.num, p.den)

PinchRate(speed) == ClampFps(PinchFpsNum(speed), PinchFpsDen)

\* predict reads msg_model, and the handler runs to its end
ScrollUpdatePredict(did_scroll) ==
    /\ crashed = "none"
    /\ proxy' = "self"
    /\ UNCHANGED << peer, touch >>
    /\ race.event = "predict"
    /\ \E model_text \in ModelsRead :
          /\ race' = [race EXCEPT !.event = "done",
                                  !.fps = ScrollRate(model_text, race.arg)]
          /\ GestureScrollUpdateBody(<<7, 3>>, <<0, 0>>, "Pixels", did_scroll, FALSE, "SCROLL_ON_IMPL_THREAD", race.arg, model_text, scrollSpeed)

\* double fps = 0.0213*scrollSpeed+15.6, inside an active pinch: the read
PinchUpdateLoadSpeed ==
    /\ RaceFrame
    /\ race.event = "idle" \/ Quiescent
    /\ gesture_pinch_on_impl_thread_
    /\ race' = [RaceBase EXCEPT !.event = "zero", !.kind = "pinch",
                                !.loaded = scrollSpeed]
    /\ UNCHANGED << governor, last >>

\* scrollSpeed = 0, and the handler runs to its end
PinchUpdateStoreSpeed(zoomDisabled) ==
    /\ crashed = "none"
    /\ proxy' = "self"
    /\ UNCHANGED << peer, touch >>
    /\ race.event = "zero"
    /\ race' = [race EXCEPT !.event = "done", !.fps = PinchRate(race.loaded)]
    /\ GesturePinchUpdateBody(<<7, 3>>, 125, zoomDisabled, race.loaded, 0)

RaceNext ==
    \/ \E msg \in RaceModels, speed \in RaceSpeeds : SetModelStoreRoutingId(msg, 1, speed)
    \/ SetModelBeginStoreModel
    \/ SetModelEndStoreModel
    \/ SetModelStoreSpeed
    \/ HandleGestureScrollBegin(<<7, 5>>, "Pixels", FALSE, "SCROLL_ON_IMPL_THREAD")
    \/ ScrollUpdateLoadSpeed
    \/ ScrollUpdateStoreSpeed
    \/ ScrollUpdateLoadArgument
    \/ \E did_scroll \in BOOLEAN : ScrollUpdatePredict(did_scroll)
    \/ HandleGestureScrollEnd("Pixels")
    \/ HandleGesturePinchBegin("Touchscreen", "kNone")
    \/ PinchUpdateLoadSpeed
    \/ \E zoomDisabled \in BOOLEAN : PinchUpdateStoreSpeed(zoomDisabled)
    \/ HandleGesturePinchEnd

RaceSpec == Init /\ [][RaceNext]_vars

\* ------------------------------------------------------------------------
\* A second InputHandlerProxy in the same process
\* ------------------------------------------------------------------------
\* The handlers are member functions: run on the second instance they use
\* its members (peer) and the same file-scope objects, which exist once in
\* the process.  The second instance keeps smooth scrolling off and, like
\* the first one, never has a fling curve; its events are pixel-based
\* touchscreen gestures.
PeerFrame ==
    /\ crashed = "none"
    /\ Quiescent
    /\ race' = NoRace
    /\ proxy' = "peer"
    /\ UNCHANGED << flags, fling, touch, config >>

PeerHandleInputModelMsg(msg, routing_id, speed) ==
    /\ PeerFrame
    /\ routing_id_' = routing_id
    /\ msg_model' = StoredModel(msg_model, msg)
    /\ scrollSpeed' = StoredSpeed(speed)
    /\ last' = Outcome("SetModel", "NONE", << >>, 0, {}, speed, FALSE, FALSE,
                       msg)
    /\ UNCHANGED << stream, peer, crashed >>

PeerHandleGestureScrollBegin(pt, answer) ==
    LET x == pt[1]
        y == pt[2]
        dcheck_fails == debug_build /\ peer.expect_scroll_update_end_
    IN /\ PeerFrame
       /\ IF IsSentinelPoint(x, y)
          THEN /\ last' = Of(Plain("ScrollBegin", "DROP_EVENT", << >>),
                            x, y, 0, 0, "Pixels")
               /\ UNCHANGED << governor, stream, peer, crashed >>
          ELSE /\ start_point_x' = x
               /\ start_point_y' = y
               /\ IF dcheck_fails
                  THEN /\ crashed' = "dcheck"
                       /\ peer' = [peer EXCEPT
                              !.gesture_scroll_on_impl_thread_ = FALSE]
                       /\ last' = Of(Plain("ScrollBegin", "NONE", << >>),
                                    x, y, 0, 0, "Pixels")
                  ELSE /\ crashed' = "none"
                       /\ peer' = [peer EXCEPT
                              !.expect_scroll_update_end_ = debug_build,
                              !.gesture_scroll_on_impl_thread_ =
                                  (answer = "SCROLL_ON_IMPL_THREAD")]
                       /\ last' = Of(Plain("ScrollBegin",
                                          ScrollBeginDisposition(answer),
                                          << Call("ScrollBegin", x, y) >>),
                                    x, y, 0, 0, "Pixels")
               /\ UNCHANGED << governor, start_point_x_, start_point_y_,
                               accumulated_delta_x, accumulated_delta_y,
                               accumulated_delta_x_, accumulated_delta_y_ >>

PeerHandleGestureScrollUpdate(pt, delta, did_scroll) ==
    LET speed == TruncDiv(scrollSpeed, kSpeedDivisor)
        p == predict(msg_model, speed)
        fps == ClampFps(p.num, p.den)
        stage == IF p.exit THEN "exit"
                 ELSE IF debug_build /\ ~peer.expect_scroll_update_end_
                 THEN "dcheck"
                 ELSE IF ~peer.gesture_scroll_on_impl_thread_
                         /\ ~peer.gesture_pinch_on_impl_thread_
                 THEN "inactive"
                 ELSE "scrollby"
        forwarded == stage = "scrollby"
        delayed == p.calls \o ScrollSleeps(fps)
    IN /\ PeerFrame
       /\ forwarded => /\ Abs(accumulated_delta_x + delta[1]) <= MaxAccum
                       /\ Abs(accumulated_delta_y + delta[2]) <= MaxAccum
       /\ scrollSpeed' = speed
       /\ crashed' = IF stage \in {"exit", "dcheck"} THEN stage ELSE "none"
       /\ start_point_x_' = IF forwarded THEN 0 ELSE start_point_x_
       /\ start_point_y_' = IF forwarded THEN 0 ELSE start_point_y_
       /\ accumulated_delta_x_' = IF forwarded THEN 0 ELSE accumulated_delta_x_
       /\ accumulated_delta_y_' = IF forwarded THEN 0 ELSE accumulated_delta_y_
       /\ accumulated_delta_x' =
              IF forwarded THEN accumulated_delta_x + delta[1]
              ELSE accumulated_delta_x
       /\ accumulated_delta_y' =
              IF forwarded THEN accumulated_delta_y + delta[2]
              ELSE accumulated_delta_y
       /\ last' = Of(Outcome("ScrollUpdate",
                             CASE stage \in {"exit", "dcheck"} -> "NONE"
                               [] stage = "inactive" -> "DID_NOT_HANDLE"
                               [] stage = "scrollby" ->
                                    IF did_scroll THEN "DID_HANDLE"
                                    ELSE "DROP_EVENT",
                             CASE stage = "exit" -> p.calls
                               [] stage = "scrollby" ->
                                    delayed
                                    \o << Call("ScrollBy",
                                               ScrollStateDelta(delta[1], accumulated_delta_x),
                                               ScrollStateDelta(delta[2], accumulated_delta_y)) >>
                               [] OTHER -> delayed,
                             IF stage = "exit" THEN 0 ELSE fps,
                             IF stage = "exit" THEN {} ELSE ScrollBands(fps),
                             speed, forwarded /\ did_scroll, FALSE, ""),
                     pt[1], pt[2], delta[1], delta[2], "Pixels")
       /\ UNCHANGED << msg_model, routing_id_, start_point_x, start_point_y,
                       peer >>

PeerHandleGestureScrollEnd ==
    LET dcheck_fails == debug_build /\ ~peer.expect_scroll_update_end_
    IN /\ PeerFrame
       /\ IF dcheck_fails
          THEN /\ crashed' = "dcheck"
               /\ last' = Of(Plain("ScrollEnd", "NONE", << >>),
                            0, 0, 0, 0, "Pixels")
               /\ UNCHANGED << governor, stream, peer >>
          ELSE /\ peer' = [peer EXCEPT
                      !.expect_scroll_update_end_ = FALSE,
                      !.gesture_scroll_on_impl_thread_ = FALSE]
               /\ start_point_x_' = 0
               /\ start_point_y_' = 0
               /\ accumulated_delta_x_' = 0
               /\ accumulated_delta_y_' = 0
               /\ last' = Of(Plain("ScrollEnd",
                                  IF peer.gesture_scroll_on_impl_thread_
                                  THEN "DID_HANDLE" ELSE "DID_NOT_HANDLE",
                                  << Call("ScrollEnd", 0, 0) >>),
                            0, 0, 0, 0, "Pixels")
               /\ UNCHANGED << governor, start_point_x, start_point_y,
                               accumulated_delta_x, accumulated_delta_y,
                               crashed >>

PeerHandleGesturePinchBegin ==
    LET dcheck_fails == debug_build /\ peer.gesture_pinch_on_impl_thread_
    IN /\ PeerFrame
       /\ crashed' = IF dcheck_fails THEN "dcheck" ELSE "none"
       /\ peer' = [peer EXCEPT !.gesture_pinch_on_impl_thread_ = TRUE]
       /\ last' = IF dcheck_fails THEN Plain("PinchBegin", "NONE", << >>)
                  ELSE Plain("PinchBegin", "DID_HANDLE",
                             << Call("PinchGestureBegin", 0, 0) >>)
       /\ UNCHANGED << governor, stream >>

PeerHandleGesturePinchEnd ==
    /\ PeerFrame
    /\ peer' = [peer EXCEPT !.gesture_pinch_on_impl_thread_ = FALSE]
    /\ last' = IF peer.gesture_pinch_on_impl_thread_
               THEN Plain("PinchEnd", "DID_HANDLE",
                          << Call("PinchGestureEnd", 0, 0) >>)
               ELSE Plain("PinchEnd", "DID_NOT_HANDLE", << >>)
    /\ UNCHANGED << governor, stream, crashed >>

PeerHandleGesturePinchUpdate(pt, zoomDisabled) ==
    LET fps == ClampFps(PinchFpsNum(scrollSpeed), PinchFpsDen)
        delayed == PinchSleeps(fps)
    IN /\ PeerFrame
       /\ IF peer.gesture_pinch_on_impl_thread_
          THEN /\ scrollSpeed' = 0
               /\ last' = Outcome(
                      "PinchUpdate",
                      IF zoomDisabled THEN "DROP_EVENT" ELSE "DID_HANDLE",
                      IF zoomDisabled THEN delayed
                      ELSE delayed
                           \o << Call("PinchGestureUpdate", pt[1], pt[2]) >>,
                      fps, PinchBands(fps), scrollSpeed, FALSE, FALSE, "")
          ELSE /\ scrollSpeed' = scrollSpeed
               /\ last' = Plain("PinchUpdate", "DID_NOT_HANDLE", << >>)
       /\ UNCHANGED << msg_model, routing_id_, stream, peer, crashed >>

TwoProxiesNext ==
    \/ HandleInputModelMsg("svrA", 1, 3000)
    \/ HandleGestureScrollBegin(<<7, 5>>, "Pixels", FALSE, "SCROLL_ON_IMPL_THREAD")
    \/ HandleGestureScrollUpdate(<<7, 3>>, <<1, 0>>, "Pixels", TRUE, FALSE, "SCROLL_ON_IMPL_THREAD")
    \/ HandleGestureScrollEnd("Pixels")
    \/ PeerHandleInputModelMsg("svrB", 2, 6000)
    \/ \E pt \in {<<-1, -1>>, <<3, 9>>} : PeerHandleGestureScrollBegin(pt, "SCROLL_ON_IMPL_THREAD")
    \/ PeerHandleGestureScrollUpdate(<<3, 8>>, <<0, 1>>, TRUE)
    \/ PeerHandleGestureScrollEnd
    \/ PeerHandleGesturePinchBegin
    \/ PeerHandleGesturePinchUpdate(<<3, 8>>, FALSE)
    \/ PeerHandleGesturePinchEnd

TwoProxiesSpec == Init /\ [][TwoProxiesNext]_vars

\* ------------------------------------------------------------------------
\* Properties
\* ------------------------------------------------------------------------
RECURSIVE SumSleeps(_, _)
SumSleeps(calls, i) ==
    IF i > Len(calls) THEN 0
    ELSE (IF calls[i].op = "Sleep" THEN calls[i].a ELSE 0)
         + SumSleeps(calls, i + 1)

\* the time the thread was blocked during the last operation, in microseconds
TotalSleep == SumSleeps(last.calls, 1)
SleepCalls == CallsOf(last.calls, "Sleep")

\* the last operation ran the governor (computed a rate and chose a delay)
Governed == last.op \in {"ScrollUpdate", "PinchUpdate"} /\ last.bands # {}
NoModel == msg_model = "" \/ msg_model = "stop"
Rates == kMinFps .. kMaxFps
\* speeds fed to the predictor
PredictInputs == -20 .. 70

\* C1: with the stored model empty or "stop", predict returns exactly 60 for
\* every speed, without calling svm_load_model and without ending the
\* process; a GestureScrollUpdate handled in that state therefore uses rate
\* 60 and leaves no deserialization call behind.
C1_NoModelPredicts60 ==
    NoModel =>
        /\ \A speed \in PredictInputs :
               LET p == predict(msg_model, speed)
               IN /\ ~p.exit
                  /\ p.num = 60 * p.den
                  /\ p.calls = << >>
        /\ last.op = "ScrollUpdate" =>
               /\ crashed # "exit"
               /\ last.fps = 60
               /\ CallsOf(last.calls, "svm_load_model") = << >>

C1_Witness ==
    /\ msg_model = "stop"
    /\ last.op = "ScrollUpdate"
    /\ last.speed = 60
    /\ last.fps = 60

\* C2: while no model is loaded (model text empty or "stop") no event is
\* throttled: every GestureScrollUpdate and every GesturePinchUpdate is
\* forwarded with a delay of zero.
C2_NoModelNoThrottle ==
    (NoModel /\ last.op \in {"ScrollUpdate", "PinchUpdate"}) => TotalSleep = 0

\* C3: the rate that picks the delay band of a GestureScrollUpdate or a
\* GesturePinchUpdate is an integer in 10..60 (a raw rate of 5 becomes 10, of
\* 70 becomes 60), and the 1..9 band is never entered.
C3_RateClamped ==
    Governed =>
        /\ last.fps \in Rates
        /\ "b1_9" \notin last.bands
        /\ (last.op = "ScrollUpdate" /\ msg_model = "svrI") =>
               /\ last.speed < 10 => last.fps = 10
               /\ last.speed > 60 => last.fps = 60
               /\ last.speed \in Rates => last.fps = last.speed

C3_Witness ==
    /\ last.op = "ScrollUpdate"
    /\ msg_model = "svrI"
    /\ last.speed = 5
    /\ last.fps = 10

\* the delay table of the specification, in microseconds: the exact value of
\* each formula with the fraction of a microsecond dropped
TableDelay(r) ==
    IF r >= 10 /\ r <= 15
    THEN (4000000 + r * (5001 * (r - 10) - 66668)) \div (4 * r)
    ELSE IF r > 15 /\ r < 20
    THEN (10000000 + r * (2 * 5001 * (r - 10) - 166670)) \div (10 * r)
    ELSE IF r >= 20 /\ r <= 30 THEN 24997 + 1667 * (30 - r)
    ELSE IF r > 30 /\ r <= 41 THEN (33326 + 1667 * (41 - r)) \div 2
    ELSE IF r > 41 /\ r <= 44 THEN (32492 + 1667 * (44 - r)) \div 2
    ELSE IF r = 45 THEN 15412
    ELSE IF r > 45 /\ r <= 52 THEN (22490 + 1667 * (52 - r)) \div 2
    ELSE IF r = 55 THEN 12912
    ELSE IF r = 60 THEN 0
    ELSE (25824 + 1667 * (55 - r)) \div 2

\* the rows of the delay table
TableRow(r) ==
    IF r >= 10 /\ r <= 15 THEN 1
    ELSE IF r > 15 /\ r < 20 THEN 2
    ELSE IF r >= 20 /\ r <= 30 THEN 3
    ELSE IF r > 30 /\ r <= 41 THEN 4
    ELSE IF r > 41 /\ r <= 44 THEN 5
    ELSE IF r = 45 THEN 6
    ELSE IF r > 45 /\ r <= 52 THEN 7
    ELSE IF r = 55 THEN 8
    ELSE IF r = 60 THEN 9
    ELSE 10

\* the time one GestureScrollUpdate at rate r blocks the thread
ScrollDelayAt(r) == SumSleeps(ScrollSleeps(r), 1)

\* C4: for every clamped rate r in 10..60 HandleGestureScrollUpdate enters
\* exactly one delay branch, sleeps at most once, and the time it blocks
\* equals the delay table's value for r.
C4_DelayTable ==
    /\ \A r \in Rates :
           /\ Cardinality(ScrollBands(r)) = 1
           /\ Len(ScrollSleeps(r)) <= 1
           /\ ScrollDelayAt(r) = TableDelay(r)
    /\ (Governed /\ last.op = "ScrollUpdate") =>
           /\ Cardinality(last.bands) = 1
           /\ Len(SleepCalls) <= 1
           /\ TotalSleep = TableDelay(last.fps)

C4_Witness ==
    /\ Governed
    /\ last.op = "ScrollUpdate"
    /\ last.fps = 53
    /\ TotalSleep = 14579

\* C5: the rate-to-delay mapping is non-increasing over the whole clamped
\* range: a GestureScrollUpdate at rate r blocks no longer than one at any
\* lower rate and no shorter than one at any higher rate.
C5_MonotoneOverall ==
    (Governed /\ last.op = "ScrollUpdate") =>
        \A r \in Rates :
            /\ r < last.fps => ScrollDelayAt(r) >= TotalSleep
            /\ r > last.fps => ScrollDelayAt(r) <= TotalSleep

\* C6: within one row of the delay table the delay is non-increasing in the
\* rate: a GestureScrollUpdate at rate r blocks no longer than one at a lower
\* rate of the same row and no shorter than one at a higher rate of it.
C6_MonotoneInBand ==
    (Governed /\ last.op = "ScrollUpdate") =>
        \A r \in Rates :
            TableRow(r) = TableRow(last.fps) =>
                /\ r < last.fps => ScrollDelayAt(r) >= TotalSleep
                /\ r > last.fps => ScrollDelayAt(r) <= TotalSleep

C6_Witness ==
    /\ Governed
    /\ last.op = "ScrollUpdate"
    /\ last.fps = 35
    /\ TotalSleep < ScrollDelayAt(34)
    /\ TotalSleep > ScrollDelayAt(36)

\* C7: at rate 60 a GestureScrollUpdate does not suspend the thread at all (no
\* Sleep call), and a GesturePinchUpdate sleeps once, for exactly 0.
C7_CeilingNoSleep ==
    (Governed /\ last.fps = 60) =>
        /\ last.op = "ScrollUpdate" => SleepCalls = << >>
        /\ last.op = "PinchUpdate" => SleepCalls = << Sleep(0) >>

C7_Witness ==
    /\ Governed
    /\ last.op = "ScrollUpdate"
    /\ last.fps = 60
    /\ CallsOf(last.calls, "ScrollBy") # << >>
    /\ SleepCalls = << >>

\* C8: the time one GestureScrollUpdate or GesturePinchUpdate blocks the
\* thread is at least 0 and at most 100000 microseconds; it never exceeds
\* 83333, which is what rate 10 gives.
C8_SleepBounded ==
    last.op \in {"ScrollUpdate", "PinchUpdate"} =>
        /\ \A i \in 1 .. Len(SleepCalls) : SleepCalls[i].a >= 0
        /\ TotalSleep >= 0
        /\ TotalSleep <= 100000
        /\ TotalSleep <= 83333
        /\ (Governed /\ last.fps = 10) => TotalSleep = 83333

C8_Witness ==
    /\ Governed
    /\ last.op = "PinchUpdate"
    /\ last.fps = 10
    /\ TotalSleep = 83333

\* positions of the calls named op in the last operation
Positions(op) == {i \in 1 .. Len(last.calls) : last.calls[i].op = op}

\* C9: with the stored speed 200 and a model that predicts 30 for 200/50 = 4,
\* a GestureScrollUpdate of a scroll active on the compositor thread that is
\* not animated blocks for exactly 24997 microseconds, then calls ScrollBy
\* once, and returns DID_HANDLE when the collaborator reports did_scroll; in
\* every GestureScrollUpdate each sleep precedes the ScrollBy call.
C9_EndToEnd ==
    /\ last.op = "ScrollUpdate" =>
           \A i \in Positions("Sleep"), j \in Positions("ScrollBy") : i < j
    /\ ( /\ last.op = "ScrollUpdate"
         /\ msg_model = "svrA"
         /\ last.speed = 4
         /\ gesture_scroll_on_impl_thread_
         /\ Positions("ScrollAnimated") = {} ) =>
           /\ crashed = "none"
           /\ last.fps = 30
           /\ SleepCalls = << Sleep(24997) >>
           /\ Cardinality(Positions("ScrollBy")) = 1
           /\ last.did_scroll => last.disposition = "DID_HANDLE"

C9_Witness ==
    /\ last.op = "ScrollUpdate"
    /\ msg_model = "svrA"
    /\ last.speed = 4
    /\ gesture_scroll_on_impl_thread_
    /\ last.did_scroll
    /\ last.disposition = "DID_HANDLE"
    /\ TotalSleep = 24997

\* C10: HandleInputModelMsg with a non-empty blob makes it the stored model,
\* with an empty blob leaves the stored model unchanged; in both cases the
\* process keeps running and no gesture-stream state (flags, start point,
\* accumulators) changes.
C10_SetModelFrame ==
    [][ last'.op = "SetModel" =>
            /\ last'.msg # "" => msg_model' = last'.msg
            /\ last'.msg = "" => msg_model' = msg_model
            /\ crashed' = "none"
            /\ UNCHANGED << stream, flags, fling, config >> ]_vars

C10_Witness ==
    /\ last.op = "SetModel"
    /\ last.msg = ""
    /\ msg_model = "svrA"
    /\ gesture_scroll_on_impl_thread_
    /\ start_point_x = 7

\* C11: after HandleInputModelMsg(msg, id, speed) the stored speed is 200
\* when speed is 0 and speed otherwise, whether or not msg is empty.
C11_SpeedNormalised ==
    last.op = "SetModel" =>
        /\ last.speed = 0 => scrollSpeed = 200
        /\ last.speed # 0 => scrollSpeed = last.speed

C11_Witness ==
    /\ last.op = "SetModel"
    /\ last.msg = ""
    /\ last.speed = 0
    /\ scrollSpeed = 200

\* the stored model is a blob that does not deserialize
Malformed == ~NoModel /\ ~svm_load_model(msg_model).ok

\* C12: HandleInputModelMsg with a malformed blob stores it and the process
\* keeps running; the process ends (exit) only in a GestureScrollUpdate
\* handled while the malformed blob is stored, before any sleep and before
\* any ScrollBy or ScrollAnimated of that event; no other operation ends it
\* that way, GesturePinchUpdate included.
C12_LazyFatalModel ==
    /\ (last.op = "SetModel" /\ last.msg = "garbage") =>
           msg_model = "garbage" /\ crashed = "none"
    /\ crashed = "exit" =>
           /\ last.op = "ScrollUpdate"
           /\ Malformed
           /\ Positions("exit") # {}
           /\ Positions("Sleep") = {}
           /\ Positions("ScrollBy") = {}
           /\ Positions("ScrollAnimated") = {}
    /\ (last.op = "ScrollUpdate" /\ Malformed) => crashed = "exit"
    /\ (last.op = "PinchUpdate" /\ Malformed) => crashed = "none"

C12_Witness ==
    /\ last.op = "ScrollUpdate"
    /\ msg_model = "garbage"
    /\ gesture_scroll_on_impl_thread_
    /\ crashed = "exit"
    /\ last.calls = << Call("svm_load_model", 0, 0), Call("exit", 1, 0) >>

\* the positions the specification names as sentinels
SentinelPositions == {<<-1, -1>>, <<0, 0>>}
\* the last operation was a GestureScrollBegin at a sentinel position
SentinelBegin ==
    /\ last.op = "ScrollBegin"
    /\ <<last.event.x, last.event.y>> \in SentinelPositions
\* the last operation was a GestureScrollBegin at any other position
OrdinaryBegin ==
    /\ last.op = "ScrollBegin"
    /\ <<last.event.x, last.event.y>> \notin SentinelPositions

\* C13: a GestureScrollBegin at (-1,-1) or (0,0) returns DROP_EVENT, calls
\* nothing (no ScrollBegin, RootScrollBegin, ScrollAnimatedBegin, no fling
\* cancellation) and leaves the start position, the accumulated deltas, the
\* gesture flags and the fling state unchanged; a GestureScrollBegin at any
\* other position, also one with a single coordinate 0 or -1, is handled:
\* its position becomes the start position and, unless it is page-based or
\* an assertion stops the process, a begin call reaches the collaborator.
C13_SentinelDropped ==
    [][ /\ SentinelBegin' =>
            /\ last'.disposition = "DROP_EVENT"
            /\ last'.calls = << >>
            /\ crashed' = "none"
            /\ UNCHANGED << stream, flags, fling >>
        /\ OrdinaryBegin' =>
            /\ start_point_x' = last'.event.x
            /\ start_point_y' = last'.event.y
            /\ (crashed' = "none" /\ last'.disposition # "DID_NOT_HANDLE") =>
                   \E i \in 1 .. Len(last'.calls) :
                       last'.calls[i].op \in {"ScrollBegin", "RootScrollBegin",
                                              "ScrollAnimatedBegin"} ]_vars

C13_Witness ==
    /\ SentinelBegin
    /\ last.event.x = 0
    /\ gesture_scroll_on_impl_thread_
    /\ start_point_x = 7
    /\ accumulated_delta_x = 1
    /\ (debug_build => expect_scroll_update_end_)

\* every start-position and accumulated-delta variable is zero
StreamZero ==
    /\ start_point_x = 0 /\ start_point_y = 0
    /\ start_point_x_ = 0 /\ start_point_y_ = 0
    /\ accumulated_delta_x = 0 /\ accumulated_delta_y = 0
    /\ accumulated_delta_x_ = 0 /\ accumulated_delta_y_ = 0

\* C14: after a GestureScrollBegin, any number of GestureScrollUpdates and
\* the GestureScrollEnd that closes them, every start-position and
\* accumulated-delta variable is zero, animated or not.
C14_StreamReset ==
    [][ ( /\ crashed = "none"
          /\ OrdinaryBegin \/ last.op = "ScrollUpdate"
          /\ last'.op = "ScrollEnd"
          /\ crashed' = "none" ) => StreamZero' ]_vars

\* C15: a GestureScrollBegin at a position that is no sentinel records the
\* position as the start position and leaves all four accumulated-delta
\* variables at zero, whatever was handled before.
C15_BeginZeroesAccumulators ==
    (OrdinaryBegin /\ crashed = "none") =>
        /\ start_point_x = last.event.x
        /\ start_point_y = last.event.y
        /\ accumulated_delta_x = 0 /\ accumulated_delta_y = 0
        /\ accumulated_delta_x_ = 0 /\ accumulated_delta_y_ = 0

\* in the calls of an operation, a call named end is made and every call
\* named in begins comes after it
EndBeforeBegin(calls, end, begins) ==
    \E i \in 1 .. Len(calls) :
        /\ calls[i].op = end
        /\ \A j \in 1 .. Len(calls) : calls[j].op \in begins => i < j

\* C16: a GestureScrollBegin handled while a scroll is active on the
\* compositor thread, and a GesturePinchBegin handled while a pinch is
\* active, fails no assertion and sends the collaborator the End call
\* (ScrollEnd, PinchGestureEnd) of the open stream before the Begin call of
\* the new one.
C16_ImplicitEndBegin ==
    [][ /\ (gesture_scroll_on_impl_thread_ /\ OrdinaryBegin') =>
            /\ crashed' = "none"
            /\ EndBeforeBegin(last'.calls, "ScrollEnd",
                              {"ScrollBegin", "RootScrollBegin",
                               "ScrollAnimatedBegin"})
        /\ (gesture_pinch_on_impl_thread_ /\ last'.op = "PinchBegin") =>
            /\ crashed' = "none"
            /\ EndBeforeBegin(last'.calls, "PinchGestureEnd",
                              {"PinchGestureBegin"}) ]_vars

\* C17: a GestureScrollUpdate or GestureScrollEnd handled when no scroll
\* stream is open (at the start or right after a GestureScrollEnd), and a
\* GesturePinchUpdate or GesturePinchEnd handled when no pinch is active,
\* fails no assertion and sends the collaborator no ScrollBy, ScrollEnd,
\* PinchGestureUpdate or PinchGestureEnd.
C17_UnmatchedRecovered ==
    [][ /\ ( /\ crashed = "none"
             /\ last.op \in {"none", "ScrollEnd"}
             /\ last'.op \in {"ScrollUpdate", "ScrollEnd"} ) =>
            /\ crashed' # "dcheck"
            /\ \A i \in 1 .. Len(last'.calls) :
                   last'.calls[i].op \notin {"ScrollBy", "ScrollEnd"}
        /\ ( /\ ~gesture_pinch_on_impl_thread_
             /\ last'.op \in {"PinchUpdate", "PinchEnd"} ) =>
            /\ crashed' # "dcheck"
            /\ \A i \in 1 .. Len(last'.calls) :
                   last'.calls[i].op \notin {"PinchGestureUpdate",
                                             "PinchGestureEnd"} ]_vars

\* the number of calls named op in calls
Count(calls, op) == Len(CallsOf(calls, op))

\* C18: every GestureScrollEnd sends the collaborator exactly one ScrollEnd
\* when the scroll is not animated and none when it is, leaves
\* gesture_scroll_on_impl_thread_ false, and returns DID_HANDLE if the
\* scroll was active on the compositor thread and DID_NOT_HANDLE otherwise.
C18_ScrollEndOnce ==
    [][ last'.op = "ScrollEnd" =>
            LET animated == /\ smooth_scroll_enabled_
                            /\ last'.event.units = "Pixels"
            IN /\ Count(last'.calls, "ScrollEnd") = IF animated THEN 0 ELSE 1
               /\ ~gesture_scroll_on_impl_thread_'
               /\ last'.disposition =
                      IF gesture_scroll_on_impl_thread_ THEN "DID_HANDLE"
                      ELSE "DID_NOT_HANDLE" ]_vars

\* the last operation was a GestureScrollUpdate that called the collaborator
ReachedCollaborator ==
    /\ last.op = "ScrollUpdate"
    /\ Positions("ScrollBy") \cup Positions("ScrollAnimated") # {}

\* the call named op is made once in the last operation, as its final call
\* and so after every sleep, and carries the negation of the event's delta
ForwardsOwnDelta(op) ==
    /\ Positions(op) = {Len(last.calls)}
    /\ \A i \in Positions("Sleep") : i < Len(last.calls)
    /\ last.calls[Len(last.calls)].a = -last.event.dx
    /\ last.calls[Len(last.calls)].b = -last.event.dy

\* C19 as stated: every GestureScrollUpdate that reaches the collaborator
\* makes exactly one ScrollBy, carrying the negation of the event's own
\* delta, after the event's delay.
C19_OneScrollByPerUpdate ==
    ReachedCollaborator => ForwardsOwnDelta("ScrollBy")

\* C19 amended: every GestureScrollUpdate that reaches the collaborator makes
\* exactly one forwarding call within its own handling, after the sleeps of
\* that event: ScrollBy when the update is not animated, ScrollAnimated when
\* it is (smooth scrolling enabled and pixel units), never both; the call
\* carries the negation of that event's own delta, never an accumulated one.
\* Each event is handled to completion before the next, so the calls are made
\* in the arrival order of the events.
C19_OneForwardPerUpdate ==
    ReachedCollaborator =>
        LET animated == smooth_scroll_enabled_ /\ last.event.units = "Pixels"
        IN /\ animated =>
               /\ ForwardsOwnDelta("ScrollAnimated")
               /\ Positions("ScrollBy") = {}
           /\ ~animated =>
               /\ ForwardsOwnDelta("ScrollBy")
               /\ Positions("ScrollAnimated") = {}

C19_Witness ==
    /\ ReachedCollaborator
    /\ Positions("ScrollBy") # {}
    /\ last.event.dx = 1
    /\ accumulated_delta_x = 2
    /\ TotalSleep > 0
    /\ last.calls[Len(last.calls)] = Call("ScrollBy", -1, 0)

\* the fling event of the last operation is above the boost threshold
\* (kMinBoostFlingSpeedSquare is 350 * 350)
FastFling == last.event.vx * last.event.vx + last.event.vy * last.event.vy
                 >= 350 * 350
\* the last operation was the GestureFlingStart of a fast touchscreen fling
\* that arrived during a scroll on the compositor thread: its fling is in
\* flight
FlingInFlight ==
    /\ crashed = "none"
    /\ last.op = "FlingStart"
    /\ last.event.device = "Touchscreen"
    /\ last.event.scrolling
    /\ FastFling

\* C20: while a fling is in flight, a GestureFlingCancel from the same device
\* is consumed by the filter: it returns DID_HANDLE and the cancellation is
\* deferred (deferred_fling_cancel_time_seconds_ is set); and while a fling
\* is in flight with a deferred cancellation, a fast GestureFlingStart from
\* the same device is consumed and returns DID_HANDLE.
C20_FlingBoostPreserved ==
    [][ /\ ( /\ FlingInFlight
             /\ last'.op = "FlingCancel"
             /\ last'.event.device = "Touchscreen" ) =>
            /\ last'.disposition = "DID_HANDLE"
            /\ deferred_fling_cancel_time_seconds_' # 0
        /\ ( /\ fling_curve_
             /\ deferred_fling_cancel_time_seconds_ # 0
             /\ last'.op = "FlingStart"
             /\ last'.event.device = fling_parameters_sourceDevice
             /\ FastFling' ) =>
            last'.disposition = "DID_HANDLE" ]_vars

\* C21: a GestureFlingStart is routed to the fling-start handler: for a
\* touchscreen fling arriving while a scroll is active on the compositor
\* thread, FlingScrollBegin is called exactly once, and a fling that is
\* reported as DID_HANDLE has started the fling animation (fling_curve_).
C21_FlingStartRouted ==
    [][ ( /\ gesture_scroll_on_impl_thread_
          /\ crashed = "none"
          /\ last'.op = "FlingStart"
          /\ last'.event.device = "Touchscreen" ) =>
            /\ Count(last'.calls, "FlingScrollBegin") = 1
            /\ (last'.disposition = "DID_HANDLE" => fling_curve_') ]_vars

\* the operations that are input events
InputEventOps ==
    {"ScrollBegin", "ScrollUpdate", "ScrollEnd", "PinchBegin", "PinchUpdate",
     "PinchEnd", "FlingStart", "FlingCancel", "MouseWheel", "TouchStart",
     "TouchMove", "TouchEnd", "Keyboard", "Other"} \cup MouseTypes

\* C22: the stored model is changed by SetModel only: a SetModel with a
\* non-empty blob makes that blob the stored model, and every other step
\* (a SetModel with an empty blob, a prediction, an input event of any
\* type) leaves the stored model as it was; so the stored model is always
\* the last non-empty blob given to SetModel, or empty if there was none.
C22_ModelChangedBySetModelOnly ==
    [][ msg_model' = IF last'.op = "SetModel" /\ last'.msg # ""
                     THEN last'.msg
                     ELSE msg_model ]_vars

\* a model was stored, and input events of the governed and of the other
\* types were handled after it
C22_Witness ==
    /\ msg_model = "svrA"
    /\ last.op = "TouchMove"
    /\ touch_start_result_ # kEventDispositionUndefined
    /\ scrollSpeed = 60

\* C23: the stored speed is non-negative in every reachable state, whatever
\* integer speeds SetModel was given and whatever events were handled.
C23_SpeedNonNegative == scrollSpeed >= 0

\* the stored model and speed a HandleInputModelMsg call leaves
RaceModelAfter == StoredModel(race.model0, race.msg)
RaceSpeedAfter == StoredSpeed(race.speed)

\* rate used, final model and final speed of the two serial orders of the
\* call and the event
SerialOutcomes ==
    IF race.kind = "scroll"
    THEN {[fps |-> ScrollRate(RaceModelAfter,
                              TruncDiv(RaceSpeedAfter, kSpeedDivisor)),
           model |-> RaceModelAfter,
           speed |-> TruncDiv(RaceSpeedAfter, kSpeedDivisor)],
          [fps |-> ScrollRate(race.model0,
                              TruncDiv(race.speed0, kSpeedDivisor)),
           model |-> RaceModelAfter,
           speed |-> RaceSpeedAfter]}
    ELSE {[fps |-> PinchRate(RaceSpeedAfter), model |-> RaceModelAfter,
           speed |-> 0],
          [fps |-> PinchRate(race.speed0), model |-> RaceModelAfter,
           speed |-> RaceSpeedAfter]}

\* C24: the handoff of the model store is thread-safe: once a SetModel call
\* and a ScrollUpdate or PinchUpdate that overlapped it are both complete,
\* the rate the event used and the stored model and speed are those of
\* SetModel entirely before the event or of SetModel entirely after it;
\* and an event overlapping a SetModel call of a valid model never ends the
\* process.
C24_SetModelSerializable ==
    /\ ( /\ race.setter = "done"
         /\ race.event = "done"
         /\ crashed = "none" ) =>
            [fps |-> race.fps, model |-> msg_model, speed |-> scrollSpeed]
                \in SerialOutcomes
    /\ ( /\ race.setter # "idle"
         /\ race.event = "done" ) => crashed # "exit"

\* C25: the governor state is owned by one instance: a SetModel call or a
\* gesture event handled by one InputHandlerProxy changes neither the
\* model, nor the stored speed, nor the start points and accumulated deltas
\* that the other InputHandlerProxy uses for its next events.
C25_GovernorStatePerInstance ==
    [][ proxy' = "peer" =>
            UNCHANGED << msg_model, scrollSpeed, stream >> ]_vars

\* C26: every input event is consumed exactly once: with the stored model
\* absent or valid, the handling of an event comes to its end and hands
\* the callback one disposition, that event's; and overscroll parameters
\* are handed to the callback only by the event that produced them, a
\* GestureScrollUpdate whose ScrollBy overscrolled the root.
C26_ConsumedExactlyOnce ==
    (last.op \in InputEventOps /\ ~Malformed) =>
        /\ crashed = "none"
        /\ last.disposition \in Dispositions
        /\ last.overscroll =>
               /\ last.op = "ScrollUpdate"
               /\ Count(last.calls, "ScrollBy") = 1

\* C27: a GestureScrollUpdate is forwarded to ScrollBy exactly when a
\* scroll or a pinch is active on the compositor thread and the update is
\* not animated; it then returns DID_HANDLE if the collaborator reports
\* did_scroll and DROP_EVENT otherwise; with neither active it returns
\* DID_NOT_HANDLE and calls neither ScrollBy nor ScrollAnimated.
C27_ScrollUpdateForwarding ==
    [][ last'.op = "ScrollUpdate" =>
            LET active == \/ gesture_scroll_on_impl_thread_
                          \/ gesture_pinch_on_impl_thread_
                animated == ShouldAnimate(last'.event.units # "Pixels")
            IN /\ Count(last'.calls, "ScrollBy") =
                      IF active /\ ~animated THEN 1 ELSE 0
               /\ (active /\ ~animated) =>
                      last'.disposition =
                          IF last'.did_scroll THEN "DID_HANDLE"
                          ELSE "DROP_EVENT"
               /\ ~active =>
                      /\ last'.disposition = "DID_NOT_HANDLE"
                      /\ Count(last'.calls, "ScrollAnimated") = 0 ]_vars

\* the begin calls of the collaborator
BeginCalls == {"ScrollBegin", "RootScrollBegin", "ScrollAnimatedBegin"}

\* C28: after a GestureScrollBegin at a position that is no sentinel,
\* gesture_scroll_on_impl_thread_ is true exactly if the collaborator
\* answered SCROLL_ON_IMPL_THREAD to the begin call, and the event returns
\* DID_HANDLE for that answer, DID_NOT_HANDLE for SCROLL_UNKNOWN and
\* SCROLL_ON_MAIN_THREAD, DROP_EVENT for SCROLL_IGNORED; a page-based begin
\* returns DID_NOT_HANDLE, leaves the flag false and makes no begin call.
C28_ScrollBeginOutcome ==
    [][ OrdinaryBegin' =>
            IF last'.event.units = "Page"
            THEN /\ last'.disposition = "DID_NOT_HANDLE"
                 /\ ~gesture_scroll_on_impl_thread_'
                 /\ \A i \in 1 .. Len(last'.calls) :
                        last'.calls[i].op \notin BeginCalls
            ELSE /\ last'.event.answer \in ScrollThreads
                 /\ gesture_scroll_on_impl_thread_' =
                        (last'.event.answer = "SCROLL_ON_IMPL_THREAD")
                 /\ last'.disposition =
                        CASE last'.event.answer = "SCROLL_ON_IMPL_THREAD" ->
                               "DID_HANDLE"
                          [] last'.event.answer = "SCROLL_IGNORED" ->
                               "DROP_EVENT"
                          [] OTHER -> "DID_NOT_HANDLE" ]_vars

\* C29: the pinch protocol: PinchGestureUpdate and PinchGestureEnd are sent
\* only by an event handled while gesture_pinch_on_impl_thread_ is true;
\* the flag is true after an event only if that event sent
\* PinchGestureBegin, or the flag was true before and the event sent no
\* PinchGestureEnd; every PinchGestureEnd clears the flag, so that each
\* PinchGestureEnd is matched by an earlier PinchGestureBegin of its own
\* and the ends never outnumber the begins; and a GesturePinchEnd returns
\* DID_HANDLE if the pinch was active and DID_NOT_HANDLE otherwise.
C29_PinchProtocol ==
    [][ LET begins == Count(last'.calls, "PinchGestureBegin")
            updates == Count(last'.calls, "PinchGestureUpdate")
            ends == Count(last'.calls, "PinchGestureEnd")
        IN /\ (updates + ends > 0) => gesture_pinch_on_impl_thread_
           /\ begins <= 1 /\ ends <= 1
           /\ ends = 1 => (begins = 0 /\ ~gesture_pinch_on_impl_thread_')
           /\ gesture_pinch_on_impl_thread_' =>
                  \/ begins = 1
                  \/ gesture_pinch_on_impl_thread_ /\ ends = 0
           /\ last'.op = "PinchEnd" =>
                  last'.disposition =
                      IF gesture_pinch_on_impl_thread_ THEN "DID_HANDLE"
                      ELSE "DID_NOT_HANDLE" ]_vars

\* a GesturePinchEnd has closed an active pinch
C29_Witness ==
    /\ last.op = "PinchEnd"
    /\ last.disposition = "DID_HANDLE"
    /\ Count(last.calls, "PinchGestureEnd") = 1
    /\ ~gesture_pinch_on_impl_thread_
    /\ crashed = "none"

\* C30: a GesturePinchUpdate handled while no pinch is active on the
\* compositor thread returns DID_NOT_HANDLE, sleeps and calls nothing and
\* changes no state; one handled while a pinch is active first sleeps for
\* the delay of its rate, whatever zoomDisabled is, and then, if
\* zoomDisabled, returns DROP_EVENT with no PinchGestureUpdate, otherwise
\* calls PinchGestureUpdate once, as its last call, with the scale and the
\* position of the event and returns DID_HANDLE.
C30_PinchUpdateOrder ==
    [][ last'.op = "PinchUpdate" =>
            IF ~gesture_pinch_on_impl_thread_
            THEN /\ last'.disposition = "DID_NOT_HANDLE"
                 /\ last'.calls = << >>
                 /\ UNCHANGED << governor, stream, flags, fling, touch,
                                 config, crashed >>
            ELSE /\ last'.fps = PinchRate(scrollSpeed)
                 /\ CallsOf(last'.calls, "Sleep") = PinchSleeps(last'.fps)
                 /\ IF last'.event.zoomDisabled
                    THEN /\ last'.disposition = "DROP_EVENT"
                         /\ Count(last'.calls, "PinchGestureUpdate") = 0
                         /\ Len(last'.calls) = Len(PinchSleeps(last'.fps))
                    ELSE /\ last'.disposition = "DID_HANDLE"
                         /\ Count(last'.calls, "PinchGestureUpdate") = 1
                         /\ Len(last'.calls) = Len(PinchSleeps(last'.fps)) + 1
                         /\ last'.calls[Len(last'.calls)] =
                                Call3("PinchGestureUpdate", last'.event.x,
                                      last'.event.y, last'.event.scale) ]_vars

\* an update with zoomDisabled was handled during a pinch at a rate below
\* the ceiling: it was delayed and dropped
C30_Witness ==
    /\ last.op = "PinchUpdate"
    /\ last.event.zoomDisabled
    /\ last.disposition = "DROP_EVENT"
    /\ last.fps < kMaxFps
    /\ TotalSleep > 0
    /\ gesture_pinch_on_impl_thread_

\* C31: the rate of a GesturePinchUpdate handled while a pinch is active is
\* clamp(ceil(0.0213 * storedSpeed + 15.6), 10, 60) whatever the stored
\* model is (the predictor is not called), and the update sets the stored
\* speed to 0; a stored speed of 0 stays 0 until the next SetModel, and an
\* active PinchUpdate at stored speed 0 has rate 16 and sleeps once, for
\* 51834 microseconds.
C31_PinchRateFromSpeed ==
    [][ /\ ( last'.op = "PinchUpdate" /\ gesture_pinch_on_impl_thread_ ) =>
            /\ last'.fps = ClampFps(213 * scrollSpeed + 156000, 10000)
            /\ last'.fps >= kMinFps /\ last'.fps <= kMaxFps
            /\ Count(last'.calls, "svm_load_model") = 0
            /\ Count(last'.calls, "svm_predict") = 0
            /\ crashed' = "none"
            /\ msg_model' = msg_model
            /\ scrollSpeed' = 0
            /\ scrollSpeed = 0 =>
                   /\ last'.fps = 16
                   /\ CallsOf(last'.calls, "Sleep") = << Sleep(51834) >>
        /\ ( scrollSpeed = 0 /\ scrollSpeed' # 0 ) => last'.op = "SetModel" ]_vars

\* a second PinchUpdate of a pinch, under a stored model that does not
\* deserialize: rate 16, one sleep of 51834 microseconds
C31_Witness ==
    /\ last.op = "PinchUpdate"
    /\ gesture_pinch_on_impl_thread_
    /\ msg_model = "garbage"
    /\ last.speed = 0
    /\ last.fps = 16
    /\ TotalSleep = 51834
    /\ scrollSpeed = 0

\* what every GestureScrollUpdate does to the stored speed, and what keeps
\* it: the update stores storedSpeed / 50 and feeds it to the predictor, a
\* speed of 0 stays 0 until a SetModel, a non-zero speed shrinks, and
\* GestureScrollBegin and GestureScrollEnd do not touch it
SpeedDecay ==
    /\ last'.op = "ScrollUpdate" =>
           /\ scrollSpeed' = TruncDiv(scrollSpeed, 50)
           /\ last'.speed = scrollSpeed'
           /\ scrollSpeed # 0 => Abs(scrollSpeed') < Abs(scrollSpeed)
    /\ ( scrollSpeed = 0 /\ scrollSpeed' # 0 ) => last'.op = "SetModel"
    /\ last'.op \in {"ScrollBegin", "ScrollEnd"} => scrollSpeed' = scrollSpeed

\* C32 as stated: each GestureScrollUpdate overwrites the stored speed with
\* storedSpeed / 50 truncated toward zero and feeds that value to the
\* predictor; the first ScrollUpdate after SetModel with speed s feeds
\* s / 50 (and so the k-th feeds s / 50^k); the stored speed reaches 0 and
\* stays 0 until the next SetModel, and is not restored at ScrollBegin or
\* ScrollEnd.
C32_SpeedDecayFromArgument ==
    [][ /\ SpeedDecay
        /\ ( last.op = "SetModel" /\ last'.op = "ScrollUpdate" ) =>
               last'.speed = TruncDiv(last.speed, 50) ]_vars

\* C32 amended: the same, the decay starting from the speed SetModel
\* stored, which is 200 when the speed given is 0: the first ScrollUpdate
\* after SetModel with speed s feeds (IF s = 0 THEN 200 ELSE s) / 50.
C32_SpeedDecayFromStored ==
    [][ /\ SpeedDecay
        /\ ( last.op = "SetModel" /\ last'.op = "ScrollUpdate" ) =>
               last'.speed =
                   TruncDiv(IF last.speed = 0 THEN 200 ELSE last.speed, 50) ]_vars

\* the second consecutive ScrollUpdate after a SetModel with speed 3000 fed
\* 3000 / 50 / 50 = 1
C32_Witness ==
    /\ last.op = "ScrollUpdate"
    /\ last.speed = 1
    /\ scrollSpeed = 1
    /\ crashed = "none"

\* the sleeps of a GestureScrollUpdate under the stored model and speed
GovernorSleeps ==
    LET p == predict(msg_model, TruncDiv(scrollSpeed, 50))
    IN ScrollSleeps(ClampFps(p.num, p.den))

\* the sleeps come first among the calls, the predictor's aside
SleepsFirst(calls) ==
    \A i, j \in 1 .. Len(calls) :
        ( calls[i].op = "Sleep"
          /\ calls[j].op \in {"ScrollBy", "ScrollAnimated"} ) => i < j

\* C33: the governor delay of a GestureScrollUpdate is applied before the
\* handler tests whether a scroll or a pinch is active: an update that
\* returns DID_NOT_HANDLE because neither is active, and one that takes the
\* animated path, sleep exactly as a forwarded one does under the same
\* model and speed, before any call to the collaborator, and both divide
\* the stored speed by 50.
C33_DelayBeforeActiveCheck ==
    [][ ( /\ last'.op = "ScrollUpdate"
          /\ crashed' # "exit" ) =>
            /\ CallsOf(last'.calls, "Sleep") = GovernorSleeps
            /\ SleepsFirst(last'.calls)
            /\ scrollSpeed' = TruncDiv(scrollSpeed, 50)
            /\ ( ~gesture_scroll_on_impl_thread_
                 /\ ~gesture_pinch_on_impl_thread_
                 /\ crashed' = "none" ) =>
                   /\ last'.disposition = "DID_NOT_HANDLE"
                   /\ Count(last'.calls, "ScrollBy") = 0
                   /\ Count(last'.calls, "ScrollAnimated") = 0 ]_vars

\* an update with no active scroll or pinch was delayed and not handled
C33_Witness ==
    /\ last.op = "ScrollUpdate"
    /\ last.disposition = "DID_NOT_HANDLE"
    /\ ~gesture_scroll_on_impl_thread_
    /\ ~gesture_pinch_on_impl_thread_
    /\ last.fps < kMaxFps
    /\ TotalSleep > 0
    /\ last.speed = 60

\* C34: the GesturePinchUpdate case and HandleGestureScrollUpdate map a
\* clamped rate to the same sleep: for every integer rate from 10 to 59 the
\* two paths sleep for the same duration, and at rate 60 the pinch path
\* sleeps for 0 microseconds and the scroll path does not sleep; whatever
\* an update of one path slept is what the other path sleeps at its rate.
C34_SameDelayMapping ==
    /\ \A r \in kMinFps .. kMaxFps :
           IF r = 60
           THEN PinchSleeps(r) = << Sleep(0) >> /\ ScrollSleeps(r) = << >>
           ELSE /\ PinchSleeps(r) = ScrollSleeps(r)
                /\ Len(PinchSleeps(r)) = 1
    /\ ( last.op = "PinchUpdate" /\ last.fps # 0 ) =>
           CallsOf(last.calls, "Sleep") =
               IF last.fps = 60 THEN << Sleep(0) >> ELSE ScrollSleeps(last.fps)
    /\ ( last.op = "ScrollUpdate" /\ crashed # "exit" ) =>
           CallsOf(last.calls, "Sleep") =
               IF last.fps = 60 THEN << >> ELSE PinchSleeps(last.fps)

\* a pinch update at rate 35, in the band whose delay falls with the rate
C34_Witness ==
    /\ last.op = "PinchUpdate"
    /\ last.fps = 35
    /\ TotalSleep = 16663 + 5001
    /\ gesture_pinch_on_impl_thread_

\* C35: no fling is ever active: in every state reached by handling input
\* events fling_curve_ is null, deferred_fling_cancel_time_seconds_ is 0
\* and fling_may_be_active_on_main_thread_ is false; every GestureFlingStart
\* and every GestureFlingCancel returns DROP_EVENT, and the fling-boost
\* filter consumes no event of any type.
C35_NoFlingEverActive ==
    /\ ~fling_curve_
    /\ deferred_fling_cancel_time_seconds_ = 0
    /\ ~fling_may_be_active_on_main_thread_
    /\ last.op \in {"FlingStart", "FlingCancel"} =>
           /\ last.disposition = "DROP_EVENT"
           /\ last.calls = << >>
    /\ \A op \in InputEventOps : ~FilterInputEventForFlingBoosting(op)

\* a fast touchscreen GestureFlingStart arrived during a scroll on the
\* compositor thread and was dropped
C35_Witness ==
    /\ last.op = "FlingStart"
    /\ last.event.scrolling
    /\ last.event.device = "Touchscreen"
    /\ last.event.vy = 2000
    /\ last.disposition = "DROP_EVENT"
    /\ ~fling_curve_

\* the last event was a fling event that arrived during a scroll on the
\* compositor thread
FlingEndedScroll ==
    /\ last.op \in {"FlingStart", "FlingCancel"}
    /\ last.event.scrolling

\* C36: a GestureFlingStart or GestureFlingCancel handled while a scroll is
\* active on the compositor thread clears gesture_scroll_on_impl_thread_
\* and sends no ScrollEnd to the collaborator; a GestureScrollUpdate that
\* follows returns DID_NOT_HANDLE unless a pinch is active, and a
\* GestureScrollEnd that follows returns DID_NOT_HANDLE and forwards one
\* ScrollEnd.
C36_FlingEndsScrollSilently ==
    [][ /\ ( gesture_scroll_on_impl_thread_
             /\ last'.op \in {"FlingStart", "FlingCancel"} ) =>
               /\ ~gesture_scroll_on_impl_thread_'
               /\ Count(last'.calls, "ScrollEnd") = 0
        /\ ( FlingEndedScroll /\ last'.op = "ScrollUpdate"
             /\ ~gesture_pinch_on_impl_thread_ ) =>
               last'.disposition = "DID_NOT_HANDLE"
        /\ ( FlingEndedScroll /\ last'.op = "ScrollEnd" ) =>
               /\ last'.disposition = "DID_NOT_HANDLE"
               /\ Count(last'.calls, "ScrollEnd") = 1 ]_vars

\* the input events the governor acts on
GovernedOps == {"ScrollUpdate", "PinchUpdate"}

\* C37: only GestureScrollUpdate and GesturePinchUpdate events sleep or
\* change the stored speed: handling an input event of any other type
\* (ScrollBegin, ScrollEnd, PinchBegin, PinchEnd, FlingStart, FlingCancel,
\* touch, wheel, mouse, keyboard) makes no sleep and leaves the stored
\* speed and the stored model as they were.
C37_OnlyUpdatesGoverned ==
    [][ /\ last'.op \in InputEventOps \ GovernedOps =>
               /\ Count(last'.calls, "Sleep") = 0
               /\ Count(last'.calls, "svm_predict") = 0
               /\ scrollSpeed' = scrollSpeed
               /\ msg_model' = msg_model
        /\ Count(last'.calls, "Sleep") > 0 => last'.op \in GovernedOps
        /\ scrollSpeed' # scrollSpeed =>
               last'.op \in GovernedOps \cup {"SetModel"} ]_vars

\* a pinch was ended under a stored model and speed, both still in place
C37_Witness ==
    /\ last.op = "PinchEnd"
    /\ last.disposition = "DID_HANDLE"
    /\ scrollSpeed = 3000
    /\ msg_model = "svrA"

\* the calls that scroll on the compositor thread
ScrollCalls ==
    {"ScrollBegin", "RootScrollBegin", "ScrollAnimatedBegin", "ScrollBy",
     "ScrollAnimated", "ScrollEnd"}

\* C38: a MouseWheel event is never scrolled on the compositor thread and
\* changes no gesture state: its disposition is DID_HANDLE_NON_BLOCKING for
\* passive wheel listeners, DID_NOT_HANDLE for blocking or
\* blocking-and-passive ones and DROP_EVENT for none, whatever else the
\* event carries, and it sends no ScrollBegin, ScrollBy or ScrollEnd.
C38_WheelByListenersOnly ==
    [][ last'.op = "MouseWheel" =>
            /\ last'.disposition =
                   CASE last'.event.listeners = "kPassive" ->
                          "DID_HANDLE_NON_BLOCKING"
                     [] last'.event.listeners = "kBlocking" ->
                          "DID_NOT_HANDLE"
                     [] last'.event.listeners = "kBlockingAndPassive" ->
                          "DID_NOT_HANDLE"
                     [] last'.event.listeners = "kNone" -> "DROP_EVENT"
            /\ \A i \in 1 .. Len(last'.calls) :
                   last'.calls[i].op \notin ScrollCalls
            /\ last'.calls = << >>
            /\ UNCHANGED << governor, stream, flags, fling, touch, config,
                            crashed >> ]_vars

\* a wheel event arrived during a scroll on the compositor thread, with
\* blocking and passive wheel listeners, and was left to the main thread
C38_Witness ==
    /\ last.op = "MouseWheel"
    /\ last.event.listeners = "kBlockingAndPassive"
    /\ last.disposition = "DID_NOT_HANDLE"
    /\ gesture_scroll_on_impl_thread_

\* the priority of a remembered touch-start result: DROP_EVENT, then
\* DID_HANDLE_NON_BLOCKING, then DID_NOT_HANDLE
TouchPriority(code) ==
    CASE code = 3 -> 0
      [] code = 1 -> 1
      [] code = 2 -> 2
      [] OTHER -> -1

\* C39: within a touch sequence the remembered touch-start result only
\* moves up the order DROP_EVENT < DID_HANDLE_NON_BLOCKING < DID_NOT_HANDLE:
\* a TouchStart replaces it by its own result when none is remembered, when
\* DROP_EVENT is remembered or when its own result is DID_NOT_HANDLE, and
\* keeps it otherwise; a TouchMove returns the remembered result, or
\* DID_NOT_HANDLE when none is remembered; a TouchEnd with exactly one
\* touch point clears it, and every TouchEnd returns DID_NOT_HANDLE; no
\* other event touches it.
C39_TouchSequenceState ==
    [][ /\ last'.op = "TouchStart" =>
               LET new == DispositionCode(last'.event.result)
                   replaced == \/ touch_start_result_ = -1
                               \/ touch_start_result_ = 3
                               \/ new = 2
               IN /\ new \in {1, 2, 3}
                  /\ touch_start_result_' =
                         IF replaced THEN new ELSE touch_start_result_
                  /\ touch_start_result_ # -1 =>
                         TouchPriority(touch_start_result_') >=
                             TouchPriority(touch_start_result_)
                  /\ TouchPriority(touch_start_result_') >= TouchPriority(new)
        /\ last'.op = "TouchMove" =>
               /\ last'.disposition =
                      IF touch_start_result_ = -1 THEN "DID_NOT_HANDLE"
                      ELSE DispositionOf(touch_start_result_)
               /\ touch_start_result_' = touch_start_result_
        /\ last'.op = "TouchEnd" =>
               /\ last'.disposition = "DID_NOT_HANDLE"
               /\ touch_start_result_' =
                      IF last'.event.touches = 1 THEN -1
                      ELSE touch_start_result_
        /\ touch_start_result_' # touch_start_result_ =>
               last'.op \in {"TouchStart", "TouchEnd"} ]_vars

\* a second TouchStart of a sequence whose own result was DROP_EVENT left
\* the remembered DID_NOT_HANDLE in place
C39_Witness ==
    /\ last.op = "TouchStart"
    /\ last.event.result = "DROP_EVENT"
    /\ touch_start_result_ = 2

====
